---- MODULE Spec2Model ----
(***************************************************************************)
(* Control channel, command dispatcher, history ledger and simulation tick *)
(* of BambuP2SSimulator (src/simulator/bambu_p2s_sim.py).                  *)
(*                                                                         *)
(* One connection worker (_handle_client) per session, one background      *)
(* loop (_simulate_printer).  A worker step reads one packet and runs its  *)
(* handler; the accepting branch of _handle_mqtt_connect is split at its   *)
(* two effects that other threads can observe (the set insertion and the   *)
(* status push that follows time.sleep).  `sent' holds what the last step  *)
(* wrote to the sockets, `bcast' the recipients of the last broadcast.     *)
(* Times are measured relative to the construction of the simulator.       *)
(***************************************************************************)
EXTENDS Integers, Sequences, FiniteSets, TLC

\* ------------------------------------------------------------------ bounds
NumSessions == 2
MaxPackets == 2
MaxConnects == 2
MaxClock == 1
MaxLedger == 3
MaxIterations == 2
MaxBody == 16500
MaxCompletions == 2

Sessions == 1..NumSessions

\* ------------------------------------------------------- program constants
access_code == "test1234"
\* the default of the constructor's serial_number parameter
DEFAULT_SERIAL == "01S00A123456789"
REPORT_SERIAL == "01S00A123456789"
HISTORY_CAP == 50
CANCEL_REASON == 50331648
TRAY_NONE == 255
\* the most a TLS record carries, hence the most one recv on the wrapped
\* socket returns
TLS_RECORD == 16384

\* self.serial_number, as the constructor was given it
VARIABLE serial_number

\* ---------------------------------------------------------------- helpers
Min(a, b) == IF a < b THEN a ELSE b
Max(a, b) == IF a > b THEN a ELSE b

\* dict.get(k, default)
Get(d, k, default) == IF k \in DOMAIN d THEN d[k] ELSE default

\* seq[a:b] with Python's treatment of negative and out-of-range bounds
PySlice(seq, a, b) ==
    LET n == Len(seq)
        norm(i) == IF i < 0 THEN Max(i + n, 0) ELSE Min(i, n)
    IN  SubSeq(seq, norm(a) + 1, norm(b))

\* the four trays of the single AMS unit
tray ==
    [i \in 1..4 |-> [id |-> i - 1, bed_temp |-> 0, nozzle_temp_min |-> 190, remain |-> 0]]

\* tray[i] as Python indexes a list: negative i counts from the end
TrayIndexOk(i) == i >= -Len(tray) /\ i < Len(tray)
TrayAt(i) == IF i >= 0 THEN tray[i + 1] ELSE tray[Len(tray) + i + 1]

\* the ledger as seeded by the constructor
SeedHistory ==
    << [id |-> 1, gcode_file |-> "test_print_1.gcode", start_time |-> -7200,
        end_time |-> -3600, cost_time |-> 3600, result |-> "success",
        reason |-> 0, layers |-> 100],
       [id |-> 2, gcode_file |-> "test_print_2.gcode", start_time |-> -14400,
        end_time |-> -10800, cost_time |-> 3600, result |-> "success",
        reason |-> 0, layers |-> 150],
       [id |-> 3, gcode_file |-> "failed_print.gcode", start_time |-> -21600,
        end_time |-> -20400, cost_time |-> 1200, result |-> "failed",
        reason |-> 16777216, layers |-> 35] >>

\* self.state as built by the constructor (the keys the control channel and
\* the tick's progress branch read or write)
InitState ==
    [print_status |-> "IDLE", progress |-> 0, remaining_time |-> 0,
     bed_target_temp |-> 0, nozzle_target_temp |-> 0,
     layer_num |-> 0, total_layers |-> 0, fan_speed |-> 0]

\* ------------------------------------------------------------- messages
Connack(rc) == [type |-> "CONNACK", rc |-> rc]
Puback(packet_id) == [type |-> "PUBACK", packet_id |-> packet_id]
\* a SUBACK that leaves out the last granted QoS
Suback_DropsLast(packet_id, granted_qos) ==
    [type |-> "SUBACK", packet_id |-> packet_id,
     granted_qos |-> SubSeq(granted_qos, 1, Len(granted_qos) - 1)]

Suback(packet_id, granted_qos) ==
    [type |-> "SUBACK", packet_id |-> packet_id, granted_qos |-> granted_qos]
Pingresp == [type |-> "PINGRESP"]

\* _send_mqtt_publish: one PUBLISH with the given topic and JSON body
Publish(topic, body) == [type |-> "PUBLISH", topic |-> topic, body |-> body]

\* _send_message: always the fixed report topic
Message(body) == Publish(REPORT_SERIAL, body)

\* replies that report failure whatever the handler found
Reply_Failed(command, result, sequence_id) ==
    Message([key |-> "print", command |-> command, result |-> "failed",
             sequence_id |-> sequence_id])

\* the reply objects of _handle_command, all under the "print" key
Reply(command, result, sequence_id) ==
    Message([key |-> "print", command |-> command, result |-> result,
             sequence_id |-> sequence_id])

\* _send_full_status_mqtt: the snapshot of the current state
FullStatus(st, tn, cf, sequence_id) ==
    Publish(serial_number,
            [key |-> "print", command |-> "push_status",
             sequence_id |-> sequence_id,
             gcode_state |-> st.print_status,
             mc_percent |-> st.progress,
             mc_remaining_time |-> st.remaining_time,
             bed_target_temper |-> st.bed_target_temp,
             nozzle_target_temper |-> st.nozzle_target_temp,
             layer_num |-> st.layer_num,
             total_layer_num |-> st.total_layers,
             gcode_file |-> cf,
             tray_now |-> tn])

\* ----------------------------------------------------------- the ledger
\* A handler runs on a record m of the shared objects it touches plus
\* `out', the messages it has written, and `raised', whether an exception
\* has left it.
Machine(st, tn, cf, ph) ==
    [state |-> st, tray_now |-> tn, current_file |-> cf, print_history |-> ph,
     out |-> <<>>, raised |-> FALSE]

Send(m, msg) == [m EXCEPT !.out = Append(@, msg)]
Raise(m) == [m EXCEPT !.raised = TRUE]

\* a truncation that keeps the tail of the list instead of its head
Truncate_KeepTail(ph) ==
    IF Len(ph) > HISTORY_CAP THEN SubSeq(ph, Len(ph) - HISTORY_CAP + 1, Len(ph)) ELSE ph

\* self.print_history[:50]
Truncate(ph) == IF Len(ph) > HISTORY_CAP THEN SubSeq(ph, 1, HISTORY_CAP) ELSE ph

\* the early return of _record_print_completion
HasStartTime(st) == "print_start_time" \in DOMAIN st

\* _record_print_completion(success, reason) at clock reading t
_record_print_completion(m, success, reason, t) ==
    IF ~HasStartTime(m.state)
    THEN m
    ELSE LET end_time == t
             start_time == m.state.print_start_time
             history_entry ==
                 [id |-> Len(m.print_history) + 1,
                  gcode_file |-> m.current_file,
                  start_time |-> start_time,
                  end_time |-> end_time,
                  cost_time |-> end_time - start_time,
                  result |-> IF success THEN "success" ELSE "failed",
                  reason |-> reason,
                  layers |-> m.state.layer_num]
         IN  [m EXCEPT !.print_history = Truncate(<<history_entry>> \o @)]

\* list.sort(key=start_time, reverse=True): stable, descending
RECURSIVE InsertDesc(_, _)
InsertDesc(x, s) ==
    IF s = <<>> THEN <<x>>
    ELSE IF Head(s).start_time <= x.start_time THEN <<x>> \o s
         ELSE <<Head(s)>> \o InsertDesc(x, Tail(s))

RECURSIVE SortDesc(_)
SortDesc(s) == IF s = <<>> THEN <<>> ELSE InsertDesc(Head(s), SortDesc(Tail(s)))

\* a filter that lets every record through
MatchesFilter_Ignored(h, filter_type) == TRUE

\* the two list comprehensions of _send_history
MatchesFilter(h, filter_type) ==
    CASE filter_type = "success" -> h.result = "success"
      [] filter_type = "failed" -> h.result = "failed"
      [] OTHER -> TRUE

FilterHistory(ph, filter_type) ==
    SelectSeq(ph, LAMBDA h : MatchesFilter(h, filter_type))

\* a _send_history that filters the ledger itself instead of a copy of it
_send_history_InPlace(m, sequence_id, command_data) ==
    LET start_ == Get(command_data, "start", 0)
        count == Get(command_data, "count", 10)
        filter_type == Get(command_data, "filter", "all")
        filtered_history == SortDesc(FilterHistory(m.print_history, filter_type))
        total_count == Len(filtered_history)
        end == Min(start_ + count, total_count)
        paginated_history == PySlice(filtered_history, start_, end)
    IN  Send([m EXCEPT !.print_history = filtered_history],
             Message([key |-> "print", command |-> "get_history",
                      sequence_id |-> sequence_id, result |-> "success",
                      total |-> total_count, start |-> start_,
                      count |-> Len(paginated_history),
                      records |-> paginated_history]))

\* _send_history
_send_history(m, sequence_id, command_data) ==
    LET start_ == Get(command_data, "start", 0)
        count == Get(command_data, "count", 10)
        filter_type == Get(command_data, "filter", "all")
        filtered_history == SortDesc(FilterHistory(m.print_history, filter_type))
        total_count == Len(filtered_history)
        end == Min(start_ + count, total_count)
        paginated_history == PySlice(filtered_history, start_, end)
    IN  Send(m, Message([key |-> "print", command |-> "get_history",
                         sequence_id |-> sequence_id, result |-> "success",
                         total |-> total_count, start |-> start_,
                         count |-> Len(paginated_history),
                         records |-> paginated_history]))

\* ------------------------------------------------------- the dispatcher
\* the start_print / project_file branch
StartPrint(m, sequence_id, command_data) ==
    LET m1 == [m EXCEPT !.current_file = Get(command_data, "gcode_file", "test.gcode"),
                        !.state = [@ EXCEPT !.print_status = "RUNNING",
                                            !.progress = 0,
                                            !.layer_num = 0,
                                            !.total_layers = 100,
                                            !.remaining_time = 3600]]
        tray_id == Get(command_data, "ams_tray", 0)
        reply == Reply("start_print", "success", sequence_id)
    IN  IF tray_id < Len(tray)
        THEN IF TrayIndexOk(tray_id)
             THEN Send([m1 EXCEPT !.state = [@ EXCEPT
                                    !.bed_target_temp = TrayAt(tray_id).bed_temp,
                                    !.nozzle_target_temp = TrayAt(tray_id).nozzle_temp_min + 10],
                                  !.tray_now = tray_id],
                       reply)
             ELSE Raise(m1)
        ELSE Send(m1, reply)

\* the stop branch
StopPrint(m, sequence_id, t) ==
    LET m1 == _record_print_completion(m, FALSE, CANCEL_REASON, t)
    IN  Send([m1 EXCEPT !.state = [@ EXCEPT !.print_status = "IDLE",
                                            !.progress = 0,
                                            !.bed_target_temp = 0,
                                            !.nozzle_target_temp = 0],
                        !.tray_now = TRAY_NONE],
             Reply("stop", "success", sequence_id))

\* a change_filament branch whose bound test lets the list length through
ChangeFilament_OffByOne(m, sequence_id, command_data) ==
    LET tray_id == Get(command_data, "target_ams", 0)
    IN  IF tray_id <= Len(tray)
        THEN Send([m EXCEPT !.tray_now = tray_id],
                  Reply("change_filament", "success", sequence_id))
        ELSE Send(m, Message([key |-> "print", command |-> "change_filament",
                              result |-> "failed", reason |-> "Invalid tray",
                              sequence_id |-> sequence_id]))

\* the change_filament branch
ChangeFilament(m, sequence_id, command_data) ==
    LET tray_id == Get(command_data, "target_ams", 0)
    IN  IF tray_id < Len(tray)
        THEN Send([m EXCEPT !.tray_now = tray_id],
                  Reply("change_filament", "success", sequence_id))
        ELSE Send(m, Message([key |-> "print", command |-> "change_filament",
                              result |-> "failed", reason |-> "Invalid tray",
                              sequence_id |-> sequence_id]))

\* ------------------------------------------------------------ G-code lines
\* A JSON string is [str |-> the sequence of its characters]; any other
\* JSON value is a record without a str field.
Str(chars) == [str |-> chars]
IsStr(v) == "str" \in DOMAIN v

Digits == <<"0", "1", "2", "3", "4", "5", "6", "7", "8", "9">>
IsDigit(c) == \E i \in 1..10 : Digits[i] = c
DigitValue(c) == CHOOSE i \in 0..9 : Digits[i + 1] = c

\* str.upper() on the letters that occur in the lines
UpperChar(c) ==
    CASE c = "m" -> "M" [] c = "s" -> "S" [] c = "g" -> "G" [] c = "t" -> "T"
      [] OTHER -> c
Upper(x) == [i \in 1..Len(x) |-> UpperChar(x[i])]

\* str.strip()
RECURSIVE LStrip(_)
LStrip(x) == IF x # <<>> /\ Head(x) = " " THEN LStrip(Tail(x)) ELSE x
RECURSIVE RStrip(_)
RStrip(x) ==
    IF x # <<>> /\ x[Len(x)] = " " THEN RStrip(SubSeq(x, 1, Len(x) - 1)) ELSE x
Strip(x) == RStrip(LStrip(x))

\* str.startswith(p)
StartsWith(x, p) == Len(x) >= Len(p) /\ SubSeq(x, 1, Len(p)) = p

\* str.split(c)
RECURSIVE Split(_, _)
Split(x, c) ==
    IF \A i \in 1..Len(x) : x[i] # c
    THEN <<x>>
    ELSE LET k == CHOOSE i \in 1..Len(x) :
                     x[i] = c /\ \A j \in 1..(i - 1) : x[j] # c
         IN  <<SubSeq(x, 1, k - 1)>> \o Split(SubSeq(x, k + 1, Len(x)), c)

RECURSIVE Number(_)
Number(d) ==
    IF d = <<>> THEN 0
    ELSE 10 * Number(SubSeq(d, 1, Len(d) - 1)) + DigitValue(d[Len(d)])

\* float(x) and int(x) on blanks, a sign and decimal digits; every other
\* text raises ValueError (ok is FALSE)
ParseNumber(x) ==
    LET y == Strip(x)
        negative == y # <<>> /\ Head(y) = "-"
        d == IF negative THEN Tail(y) ELSE y
    IN  IF d = <<>> \/ \E i \in 1..Len(d) : ~IsDigit(d[i])
        THEN [ok |-> FALSE]
        ELSE [ok |-> TRUE, value |-> IF negative THEN 0 - Number(d) ELSE Number(d)]

\* int((speed / 255) * 100): the quotient, cut towards zero
FanPercent(speed) ==
    IF speed >= 0 THEN (speed * 100) \div 255 ELSE 0 - ((0 - speed) * 100) \div 255

\* gcode.split('S')[1] converted; IndexError and ValueError are caught by
\* the bare except of each branch
Argument(line) ==
    LET fields == Split(line, "S")
    IN  IF Len(fields) < 2 THEN [ok |-> FALSE] ELSE ParseNumber(fields[2])

\* _execute_gcode: a value that is not a string has no strip() and raises
_execute_gcode(m, gcode) ==
    IF ~IsStr(gcode) THEN Raise(m)
    ELSE LET line == Upper(Strip(gcode.str))
             arg == Argument(line)
         IN  CASE StartsWith(line, <<"M", "1", "0", "4">>) ->
                    IF arg.ok
                    THEN [m EXCEPT !.state = [@ EXCEPT !.nozzle_target_temp = arg.value]]
                    ELSE m
               [] StartsWith(line, <<"M", "1", "4", "0">>) ->
                    IF arg.ok
                    THEN [m EXCEPT !.state = [@ EXCEPT !.bed_target_temp = arg.value]]
                    ELSE m
               [] StartsWith(line, <<"M", "1", "0", "6">>) ->
                    IF arg.ok
                    THEN [m EXCEPT !.state = [@ EXCEPT !.fan_speed = FanPercent(arg.value)]]
                    ELSE m
               [] StartsWith(line, <<"M", "1", "0", "7">>) ->
                    [m EXCEPT !.state = [@ EXCEPT !.fan_speed = 0]]
               [] OTHER -> m

\* a _send_version that does not echo the command's sequence_id
_send_version_NoEcho(m, sequence_id) ==
    Send(m, Message([key |-> "print", command |-> "get_version",
                     sequence_id |-> "0"]))

\* _send_version
_send_version(m, sequence_id) ==
    Send(m, Message([key |-> "print", command |-> "get_version",
                     sequence_id |-> sequence_id]))

\* the body of the for loop of _handle_command for one command object
Dispatch(m, command_data, t) ==
    LET command == Get(command_data, "command", "")
        sequence_id == Get(command_data, "sequence_id", "0")
    IN  CASE command = "push_all" -> Raise(m)
          [] command = "get_history" -> _send_history(m, sequence_id, command_data)
          [] command = "get_version" -> _send_version(m, sequence_id)
          [] command \in {"start_print", "project_file"} ->
                StartPrint(m, sequence_id, command_data)
          [] command = "pause" ->
                Send([m EXCEPT !.state = [@ EXCEPT !.print_status = "PAUSED"]],
                     Reply("pause", "success", sequence_id))
          [] command = "resume" ->
                Send([m EXCEPT !.state = [@ EXCEPT !.print_status = "RUNNING"]],
                     Reply("resume", "success", sequence_id))
          [] command = "stop" -> StopPrint(m, sequence_id, t)
          [] command = "gcode_line" ->
                LET m1 == _execute_gcode(m, Get(command_data, "gcode", Str(<<>>)))
                IN  IF m1.raised THEN m1
                    ELSE Send(m1, Reply("gcode_line", "success", sequence_id))
          [] command = "change_filament" -> ChangeFilament(m, sequence_id, command_data)
          [] OTHER -> Send(m, Reply(command, "unknown_command", sequence_id))

\* _handle_command: the commands of the message in order; an exception
\* leaves the loop and is swallowed
RECURSIVE _handle_command(_, _, _)
_handle_command(m, message, t) ==
    IF message = <<>> \/ m.raised THEN m
    ELSE _handle_command(Dispatch(m, Head(message), t), Tail(message), t)

\* _handle_mqtt_publish: PUBACK for QoS 1, then the JSON body
_handle_mqtt_publish(m, pkt, t) ==
    LET m1 == IF pkt.qos = 1 THEN Send(m, Puback(pkt.packet_id)) ELSE m
    IN  IF pkt.json THEN _handle_command(m1, pkt.message, t) ELSE m1

\* _handle_mqtt_subscribe: one granted QoS per requested topic
_handle_mqtt_subscribe(m, pkt) == Send(m, Suback(pkt.packet_id, pkt.qos))

VARIABLES
    running,                \* self.running
    state,                  \* self.state
    tray_now,               \* self.ams['ams']['tray_now']
    current_file,           \* self.current_file
    print_history,          \* self.print_history
    clients,                \* self.clients
    authenticated_clients,  \* self.authenticated_clients
    conn,                   \* per session: "none", "open" or "closed" socket,
                            \* or "broken": the peer is gone, sends fail, and
                            \* the worker has not yet returned from recv
    authenticated,          \* per session: local flag of _handle_client
    pc,                     \* per session: position of the worker
    connacks,               \* per session: CONNACK return codes delivered
    npackets,               \* packets read so far by all workers
    sim,                    \* the background loop: "running" or "dead"
    last,                   \* the last step: who took it and the packet read
                            \* (or the internal step taken), where a handler
                            \* is one step
    sent,                   \* messages written by the last step, in order
    bcast,                  \* sessions the last step's broadcast wrote to
    thr                     \* per thread, when its statements are followed one
                            \* by one: the line it is at and its local values

vars == <<serial_number, running, state, tray_now, current_file, print_history, clients,
          authenticated_clients, conn, authenticated, pc, connacks,
          npackets, sim, last, sent, bcast, thr>>

printer == <<state, tray_now, current_file, print_history>>

NoPacket == [type |-> "NONE"]

\* the threads: the connection workers and, as 0, the background loop
Threads == Sessions \cup {0}

\* a thread between two handlers: at no line, with no local values
NoLocals == [at |-> "idle", cmd |-> <<>>, tmp |-> 0, entry |-> <<>>, slice |-> <<>>]

\* loc: the threads' lines and local values; log: the records line 1092
\* has inserted, newest first; snap: the shared objects and the command at
\* the start of a command and an iteration that are followed together;
\* iterations: how many times the background loop has woken up;
\* tracking: the session whose worker the acceptor has started and whose
\* socket it has yet to append to self.clients;
\* order: self.clients as the list it is, where its order matters;
\* stop: the line of stop() and the index its for loop has reached;
\* listening: the two listening sockets are open; acceptor: the accept loop;
\* completions: how often the background loop has taken its finishing
\* branch (lines 1199-1204) since the last start command
NoThreads ==
    [loc |-> [th \in Threads |-> NoLocals], log |-> <<>>, snap |-> <<>>,
     iterations |-> 0, tracking |-> {},
     order |-> <<>>, stop |-> [at |-> "idle", i |-> 0],
     listening |-> TRUE, acceptor |-> "polling", completions |-> 0]

Init ==
    /\ serial_number = DEFAULT_SERIAL
    /\ running = FALSE
    /\ state = InitState
    /\ tray_now = TRAY_NONE
    /\ current_file = ""
    /\ print_history = SeedHistory
    /\ clients = {}
    /\ authenticated_clients = {}
    /\ conn = [s \in Sessions |-> "none"]
    /\ authenticated = [s \in Sessions |-> FALSE]
    /\ pc = [s \in Sessions |-> "idle"]
    /\ connacks = [s \in Sessions |-> <<>>]
    /\ npackets = 0
    /\ sim = "running"
    /\ last = [by |-> 0, pkt |-> NoPacket]
    /\ sent = <<>>
    /\ bcast = {}
    /\ thr = NoThreads

\* start(): sets the flag and launches the background loop and the acceptor
start ==
    /\ ~running
    /\ \A s \in Sessions : conn[s] = "none"
    /\ running' = TRUE
    /\ last' = [by |-> 0, pkt |-> [type |-> "START"]]
    /\ sent' = <<>>
    /\ bcast' = {}
    /\ UNCHANGED <<serial_number, thr, sim, state, tray_now, current_file, print_history, clients,
                   authenticated_clients, conn, authenticated, pc, connacks,
                   npackets>>

\* --------------------------------------------------------------- inputs
UserNames == {"bblp", "root"}
Passwords == {access_code, "wrong"}

\* CONNECT packets: username and password are present when their flag bit
\* is set; a malformed one is too short to decode
ConnectPackets ==
    {[type |-> "CONNECT", username |-> "bblp", password |-> access_code],
     [type |-> "CONNECT", username |-> "bblp", password |-> "wrong"],
     [type |-> "CONNECT", username |-> "root", password |-> access_code],
     [type |-> "CONNECT", username |-> "bblp"],
     [type |-> "CONNECT"],
     [type |-> "CONNECT", malformed |-> TRUE]}

TrayArgs == {-5, -1, 1, 4}
HistoryStarts == {-1, 0, 1, 3}
HistoryCounts == {-1, 0, 2}
HistoryFilters == {"all", "success", "failed"}

\* the command objects a PUBLISH body carries under its "print" key
Commands ==
    {[command |-> c] : c \in {"start_print", "stop", "pause", "resume", "get_history"}}
    \cup {[command |-> "start_print", ams_tray |-> i] : i \in TrayArgs}
    \cup {[command |-> "change_filament", target_ams |-> -5]}

HistoryCommands ==
    {[command |-> "get_history", start |-> a, count |-> n, filter |-> f] :
        a \in HistoryStarts, n \in HistoryCounts, f \in HistoryFilters}
    \cup {[command |-> "get_history", filter |-> "failed"]}

PublishOf(cmds) ==
    {[type |-> "PUBLISH", qos |-> 0, json |-> TRUE, message |-> <<c>>] : c \in cmds}

PublishPackets ==
    PublishOf(Commands)
    \cup {[type |-> "PUBLISH", qos |-> 1, packet_id |-> 9, json |-> TRUE,
           message |-> <<[command |-> "project_file", ams_tray |-> 4,
                          sequence_id |-> "7"]>>],
          [type |-> "PUBLISH", qos |-> 0, json |-> FALSE]}

SubscribePackets ==
    {[type |-> "SUBSCRIBE", packet_id |-> 3, qos |-> <<0>>]}

ClosePackets == {[type |-> "DISCONNECT"], [type |-> "EOF"]}

Clock == 0..MaxClock

\* the readings of time.time() a packet's handler can make
ReadsClock(pkt) ==
    /\ pkt.type = "PUBLISH" /\ pkt.json
    /\ \E i \in 1..Len(pkt.message) : Get(pkt.message[i], "command", "") = "stop"
ClockOf(pkt) == IF ReadsClock(pkt) THEN Clock ELSE {0}

\* the readings an iteration of the background loop can make: it reads the
\* clock for the ledger only when it finishes a job
TickClock ==
    IF state.print_status = "RUNNING" /\ state.progress >= 100 THEN Clock ELSE {0}

\* ------------------------------------------------- the connection worker
\* the credential test with the password comparison left out
Authenticate_UserOnly(pkt) ==
    "username" \in DOMAIN pkt /\ pkt.username = "bblp"

\* the credential test of _handle_mqtt_connect
Authenticate(pkt) ==
    /\ "username" \in DOMAIN pkt /\ pkt.username = "bblp"
    /\ "password" \in DOMAIN pkt /\ pkt.password = access_code

Malformed(pkt) == "malformed" \in DOMAIN pkt

\* the value of the worker's flag once the CONNECT handler has returned
FlagAfterConnect(accepted) == TRUE

\* the accepting branch without its set insertion
AfterConnack_SkipAdd(accepted) == IF accepted THEN "connect_push" ELSE "read"

\* a worker that stops reading once it has refused a CONNECT
AfterConnack_StopOnRefusal(accepted) == IF accepted THEN "connect_add" ELSE "done"

\* where the worker goes after the CONNACK: on to the rest of the accepting
\* branch, or back to the head of its read loop
AfterConnack(accepted) == IF accepted THEN "connect_add" ELSE "read"

\* the packet types on which the worker leaves its loop
LeavesLoop(pkt) == pkt.type \in {"DISCONNECT", "EOF", "INCOMPLETE"}

To(s, msgs) == [i \in 1..Len(msgs) |-> [to |-> s, msg |-> msgs[i]]]

CanRead(s) ==
    /\ running
    /\ conn[s] = "open"
    /\ pc[s] = "read"
    /\ npackets < MaxPackets

\* the acceptor: a TLS client is given a worker and tracked
accept(s) ==
    /\ running
    /\ conn[s] = "none"
    /\ conn' = [conn EXCEPT ![s] = "open"]
    /\ pc' = [pc EXCEPT ![s] = "read"]
    /\ clients' = clients \cup {s}
    /\ last' = [by |-> s, pkt |-> [type |-> "ACCEPT"]]
    /\ sent' = <<>>
    /\ bcast' = {}
    /\ UNCHANGED <<serial_number, thr, running, sim, state, tray_now, current_file, print_history,
                   authenticated_clients, authenticated, connacks, npackets>>

\* the finally clause of _handle_client
Close(s) ==
    /\ authenticated_clients' = authenticated_clients \ {s}
    /\ clients' = clients \ {s}
    /\ conn' = [conn EXCEPT ![s] = "closed"]
    /\ pc' = [pc EXCEPT ![s] = "done"]

\* a CONNECT packet: _handle_mqtt_connect up to its CONNACK
RecvConnect(s, pkt) ==
    /\ CanRead(s)
    /\ npackets' = npackets + 1
    /\ last' = [by |-> s, pkt |-> pkt]
    /\ bcast' = {}
    /\ IF Malformed(pkt)
       THEN /\ sent' = <<>>
            /\ authenticated' = [authenticated EXCEPT ![s] = FlagAfterConnect(FALSE)]
            /\ UNCHANGED <<connacks, pc>>
       ELSE /\ Len(connacks[s]) < MaxConnects
            /\ IF Authenticate(pkt)
               THEN /\ sent' = To(s, <<Connack(0)>>)
                    /\ connacks' = [connacks EXCEPT ![s] = Append(@, 0)]
                    /\ pc' = [pc EXCEPT ![s] = AfterConnack(TRUE)]
                    /\ UNCHANGED authenticated
               ELSE /\ sent' = To(s, <<Connack(5)>>)
                    /\ connacks' = [connacks EXCEPT ![s] = Append(@, 5)]
                    /\ authenticated' = [authenticated EXCEPT ![s] = FlagAfterConnect(FALSE)]
                    /\ pc' = [pc EXCEPT ![s] = AfterConnack(FALSE)]
    /\ UNCHANGED <<serial_number, thr, running, sim, state, tray_now, current_file, print_history,
                   authenticated_clients, clients, conn>>

\* the accepting branch after the CONNACK: self.authenticated_clients.add
ConnectAdd(s) ==
    /\ pc[s] = "connect_add"
    /\ authenticated_clients' = authenticated_clients \cup {s}
    /\ pc' = [pc EXCEPT ![s] = "connect_push"]
    /\ last' = [by |-> s, pkt |-> [type |-> "CONNECT_ADD"]]
    /\ sent' = <<>>
    /\ bcast' = {}
    /\ UNCHANGED <<serial_number, thr, running, sim, state, tray_now, current_file, print_history,
                   clients, conn, authenticated, connacks, npackets>>

\* the accepting branch after the sleep: the status push, then the return
\* to _handle_client, which sets its flag and goes back to reading
ConnectPush(s) ==
    /\ pc[s] = "connect_push"
    /\ sent' = To(s, <<FullStatus(state, tray_now, current_file, "0")>>)
    /\ authenticated' = [authenticated EXCEPT ![s] = FlagAfterConnect(TRUE)]
    /\ pc' = [pc EXCEPT ![s] = "read"]
    /\ last' = [by |-> s, pkt |-> [type |-> "CONNECT_PUSH"]]
    /\ bcast' = {}
    /\ UNCHANGED <<serial_number, thr, running, sim, state, tray_now, current_file, print_history,
                   clients, authenticated_clients, conn, connacks, npackets>>

\* a handler's result written back to the shared objects
Commit(s, m) ==
    /\ state' = m.state
    /\ tray_now' = m.tray_now
    /\ current_file' = m.current_file
    /\ print_history' = m.print_history
    /\ sent' = To(s, m.out)

\* a PUBLISH packet, as far as the program's own objects go
PublishStep(s, pkt, t) ==
    /\ CanRead(s)
    /\ npackets' = npackets + 1
    /\ last' = [by |-> s, pkt |-> pkt]
    /\ bcast' = {}
    /\ LET m == Machine(state, tray_now, current_file, print_history)
       IN  IF authenticated[s]
           THEN Commit(s, _handle_mqtt_publish(m, pkt, t))
           ELSE Commit(s, m)
    /\ UNCHANGED <<serial_number, running, sim, clients, authenticated_clients, conn,
                   authenticated, pc, connacks>>

\* a PUBLISH packet
RecvPublish(s, pkt, t) ==
    /\ PublishStep(s, pkt, t)
    /\ UNCHANGED thr

\* a SUBSCRIBE packet
RecvSubscribe(s, pkt) ==
    /\ CanRead(s)
    /\ npackets' = npackets + 1
    /\ last' = [by |-> s, pkt |-> pkt]
    /\ bcast' = {}
    /\ LET m == Machine(state, tray_now, current_file, print_history)
       IN  IF authenticated[s]
           THEN Commit(s, _handle_mqtt_subscribe(m, pkt))
           ELSE Commit(s, m)
    /\ UNCHANGED <<serial_number, thr, running, sim, clients, authenticated_clients, conn,
                   authenticated, pc, connacks>>

\* a PINGREQ packet, answered whatever the session is
RecvPingreq(s) ==
    /\ CanRead(s)
    /\ npackets' = npackets + 1
    /\ last' = [by |-> s, pkt |-> [type |-> "PINGREQ"]]
    /\ sent' = To(s, <<Pingresp>>)
    /\ bcast' = {}
    /\ UNCHANGED <<serial_number, thr, running, sim, state, tray_now, current_file, print_history,
                   clients, authenticated_clients, conn, authenticated, pc,
                   connacks>>

\* a DISCONNECT packet, the end of the stream or a short payload: the
\* worker leaves its loop and runs the finally clause
RecvClose(s, pkt) ==
    /\ CanRead(s)
    /\ LeavesLoop(pkt)
    /\ npackets' = npackets + 1
    /\ last' = [by |-> s, pkt |-> pkt]
    /\ sent' = <<>>
    /\ bcast' = {}
    /\ Close(s)
    /\ UNCHANGED <<serial_number, thr, running, sim, state, tray_now, current_file, print_history,
                   authenticated, connacks>>

handle_client(s) ==
    \/ \E pkt \in ConnectPackets : RecvConnect(s, pkt)
    \/ ConnectAdd(s)
    \/ ConnectPush(s)
    \/ \E pkt \in PublishPackets : \E t \in ClockOf(pkt) : RecvPublish(s, pkt, t)
    \/ \E pkt \in SubscribePackets : RecvSubscribe(s, pkt)
    \/ RecvPingreq(s)
    \/ \E pkt \in ClosePackets : RecvClose(s, pkt)

\* ------------------------------------------------------ the background loop
\* a progress branch that advances a paused job as well
Progress_WhilePaused(m, t) ==
    IF m.state.print_status \in {"RUNNING", "PAUSED"}
    THEN IF m.state.progress < 100
         THEN LET p == m.state.progress + 10
                  m1 == [m EXCEPT !.state = [@ EXCEPT !.progress = p,
                                                      !.remaining_time = (100 - p) * 36,
                                                      !.layer_num = p]]
              IN  IF m1.tray_now # TRAY_NONE /\ ~TrayIndexOk(m1.tray_now)
                  THEN Raise(m1)
                  ELSE m1
         ELSE LET m1 == _record_print_completion(m, TRUE, 0, t)
              IN  [m1 EXCEPT !.state = [@ EXCEPT !.print_status = "IDLE",
                                                 !.progress = 100,
                                                 !.remaining_time = 0]]
    ELSE m

\* a progress branch whose finishing iteration winds progress back to 0
Progress_Rewinds(m, t) ==
    IF m.state.print_status = "RUNNING"
    THEN IF m.state.progress < 100
         THEN LET p == m.state.progress + 10
                  m1 == [m EXCEPT !.state = [@ EXCEPT !.progress = p,
                                                      !.remaining_time = (100 - p) * 36,
                                                      !.layer_num = p]]
              IN  IF m1.tray_now # TRAY_NONE /\ ~TrayIndexOk(m1.tray_now)
                  THEN Raise(m1)
                  ELSE m1
         ELSE LET m1 == _record_print_completion(m, TRUE, 0, t)
              IN  [m1 EXCEPT !.state = [@ EXCEPT !.print_status = "IDLE",
                                                 !.progress = 0,
                                                 !.remaining_time = 0]]
    ELSE m

\* the progress branch of one iteration of _simulate_printer
Progress(m, t) ==
    IF m.state.print_status = "RUNNING"
    THEN IF m.state.progress < 100
         THEN LET p == m.state.progress + 10
                  m1 == [m EXCEPT !.state = [@ EXCEPT !.progress = p,
                                                      !.remaining_time = (100 - p) * 36,
                                                      !.layer_num = p]]
              IN  IF m1.tray_now # TRAY_NONE /\ ~TrayIndexOk(m1.tray_now)
                  THEN Raise(m1)
                  ELSE m1
         ELSE LET m1 == _record_print_completion(m, TRUE, 0, t)
              IN  [m1 EXCEPT !.state = [@ EXCEPT !.print_status = "IDLE",
                                                 !.progress = 100,
                                                 !.remaining_time = 0]]
    ELSE m

\* a broadcast loop without its try/except, ended by the first send that
\* fails
_broadcast_status_Aborts ==
    IF \E s \in authenticated_clients : conn[s] = "broken"
    THEN {}
    ELSE authenticated_clients

\* _broadcast_status: the sessions a broadcast writes the snapshot to, i.e.
\* every one in the set except those whose socket fails the send
_broadcast_status == {s \in authenticated_clients : conn[s] # "broken"}

\* one iteration of _simulate_printer; `due' says whether two seconds have
\* passed since the last broadcast.  An exception ends the thread.
Iteration(t, due) ==
    /\ running
    /\ sim = "running"
    /\ LET m == Progress(Machine(state, tray_now, current_file, print_history), t)
       IN  /\ state' = m.state
           /\ tray_now' = m.tray_now
           /\ current_file' = m.current_file
           /\ print_history' = m.print_history
           /\ sim' = IF m.raised THEN "dead" ELSE "running"
           /\ bcast' = IF due /\ ~m.raised THEN _broadcast_status ELSE {}
    /\ last' = [by |-> 0, pkt |-> [type |-> "TICK", due |-> due]]
    /\ sent' = <<>>
    /\ UNCHANGED <<serial_number, running, clients, authenticated_clients, conn,
                   authenticated, pc, connacks, npackets>>

_simulate_printer(t, due) ==
    /\ Iteration(t, due)
    /\ UNCHANGED thr

Next ==
    \/ start
    \/ \E s \in Sessions : accept(s)
    \/ \E s \in Sessions : handle_client(s)
    \/ \E t \in TickClock, due \in BOOLEAN : _simulate_printer(t, due)

Spec == Init /\ [][Next]_vars

\* ------------------------------------------- the ledger functions alone
\* The server running with session 1 accepted and authenticated, as after
\* start, accept(1) and an accepted CONNECT, on a given state and ledger.
ServingAs(sn, st, ph) ==
    /\ serial_number = sn
    /\ running = TRUE
    /\ state = st
    /\ tray_now = TRAY_NONE
    /\ current_file = ""
    /\ print_history = ph
    /\ clients = {1}
    /\ authenticated_clients = {1}
    /\ conn = [s \in Sessions |-> IF s = 1 THEN "open" ELSE "none"]
    /\ authenticated = [s \in Sessions |-> s = 1]
    /\ pc = [s \in Sessions |-> IF s = 1 THEN "read" ELSE "idle"]
    /\ connacks = [s \in Sessions |-> IF s = 1 THEN <<0>> ELSE <<>>]
    /\ npackets = 0
    /\ sim = "running"
    /\ last = [by |-> 1, pkt |-> [type |-> "CONNECT_PUSH"]]
    /\ sent = <<>>
    /\ bcast = {}
    /\ thr = NoThreads

Serving(st, ph) == ServingAs(DEFAULT_SERIAL, st, ph)

\* _send_history as a function of the ledger and the query: every ledger of
\* at most MaxLedger records over two start times and both results, and the
\* seeded one
LedgerRecords ==
    {[start_time |-> t, result |-> r] : t \in {-2, -1}, r \in {"success", "failed"}}

Ledgers ==
    {SeedHistory} \cup
    UNION {[1..n -> LedgerRecords] : n \in 0..MaxLedger}

InitHistory == \E ph \in Ledgers : Serving(InitState, ph)

NextHistory ==
    \E s \in Sessions : \E pkt \in PublishOf(HistoryCommands) : RecvPublish(s, pkt, 0)

SpecHistory == InitHistory /\ [][NextHistory]_vars

\* _record_print_completion and its two callers on a state that carries the
\* print_start_time key the function asks for, from the seeded ledger and
\* from one a single record short of the cap
OldRecord(i) ==
    [id |-> i, gcode_file |-> "old.gcode", start_time |-> -100 * i,
     end_time |-> -100 * i + 50, cost_time |-> 50, result |-> "success",
     reason |-> 0, layers |-> 100]

NearlyFull == [i \in 1..(HISTORY_CAP - 1) |-> OldRecord(i)]

StartedState == InitState @@ [print_start_time |-> -60]

InitLedger == \E ph \in {SeedHistory, NearlyFull} : Serving(StartedState, ph)

LedgerCommands ==
    {[command |-> c] : c \in {"start_print", "stop", "pause", "resume"}}

NextLedger ==
    \/ \E s \in Sessions : \E pkt \in PublishOf(LedgerCommands) :
         \E t \in ClockOf(pkt) : RecvPublish(s, pkt, t)
    \/ \E t \in TickClock, due \in BOOLEAN : _simulate_printer(t, due)

SpecLedger == InitLedger /\ [][NextLedger]_vars

\* ------------------------------------------------ the dispatcher alone
\* _handle_command on every branch of its if/elif chain, with and without
\* the optional fields of a command object, interleaved with the tick
DispatchCommands ==
    {[command |-> c] : c \in {"push_all", "get_history", "get_version",
                               "start_print", "stop", "pause", "resume",
                               "gcode_line", "change_filament", "calibrate"}}
    \cup {[command |-> c, sequence_id |-> "42"] :
             c \in {"push_all", "get_version", "pause", "stop", "calibrate"}}
    \cup {[command |-> "start_print", ams_tray |-> i, sequence_id |-> "42"] :
             i \in {-5, -1, 2, 4}}
    \cup {[command |-> "change_filament", target_ams |-> i, sequence_id |-> "42"] :
             i \in {-5, -1, 0, 3, 4, 7}}
    \cup {[command |-> "get_history", filter |-> "failed", sequence_id |-> "42"],
          [command |-> "gcode_line", gcode |-> Str(<<"M", "1", "0", "4", " ", "S", "2", "1", "0">>),
           sequence_id |-> "42"],
          [command |-> "gcode_line", gcode |-> Str(<<"M", "1", "0", "6", " ", "S", "1", "2", "8">>)],
          [sequence_id |-> "42"],
          <<>>}

InitDispatch == Serving(InitState, SeedHistory)

NextDispatch ==
    \/ \E s \in Sessions : \E pkt \in PublishOf(DispatchCommands) :
         \E t \in ClockOf(pkt) : RecvPublish(s, pkt, t)
    \/ \E t \in TickClock, due \in BOOLEAN : _simulate_printer(t, due)

SpecDispatch == InitDispatch /\ [][NextDispatch]_vars

\* ------------------------------------ the threads, statement by statement
\* The workers and the background loop write self.state, the selected tray,
\* the current file and the ledger without a lock, so another thread can run
\* between any two statements.  `at' is the source line a thread executes
\* next; a line that reads a shared value and writes one back is split into
\* its read (r) and its write (w).
Goto(l, line) == [l EXCEPT !.at = line]
SetState(m, k, v) == [m EXCEPT !.state = [@ EXCEPT ![k] = v]]

\* where _record_print_completion returns to: the stop branch in a worker,
\* the finishing branch in the background loop
ReturnTo(th) == IF th = 0 THEN "1202" ELSE "967"

\* the call of _record_print_completion with its early return (line 1058)
Called(th, m) == IF HasStartTime(m.state) THEN "1061" ELSE ReturnTo(th)

\* the first line of the branch of _handle_command a command takes
BranchOf(command_data) ==
    LET command == Get(command_data, "command", "")
    IN  CASE command \in {"start_print", "project_file"} -> "918"
          [] command = "pause" -> "942"
          [] command = "resume" -> "953"
          [] command = "stop" -> "965"

\* a test that lets the loop advance once more at 100
Unfinished_Inclusive(progress) == progress <= 100

\* the test of line 1188
Unfinished(progress) == progress < 100

\* one statement of thread th, at clock reading t: the thread's locals and
\* the shared objects after it
Exec(th, l, m, t) ==
    LET sequence_id == Get(l.cmd, "sequence_id", "0")
        tray_id == Get(l.cmd, "ams_tray", 0)
        to(l1, m1) == [l |-> l1, m |-> m1]
    IN  CASE l.at = "918" ->
               to(Goto(l, "919"),
                  [m EXCEPT !.current_file = Get(l.cmd, "gcode_file", "test.gcode")])
          [] l.at = "919" -> to(Goto(l, "920"), SetState(m, "print_status", "RUNNING"))
          [] l.at = "920" -> to(Goto(l, "921"), SetState(m, "progress", 0))
          [] l.at = "921" -> to(Goto(l, "922"), SetState(m, "layer_num", 0))
          [] l.at = "922" -> to(Goto(l, "923"), SetState(m, "total_layers", 100))
          \* with the test of line 926 and the list lookup of line 927
          [] l.at = "923" ->
               LET m1 == SetState(m, "remaining_time", 3600)
               IN  IF tray_id < Len(tray)
                   THEN IF TrayIndexOk(tray_id) THEN to(Goto(l, "928"), m1)
                        ELSE to(NoLocals, Raise(m1))
                   ELSE to(Goto(l, "939"), m1)
          [] l.at = "928" ->
               to(Goto(l, "929"), SetState(m, "bed_target_temp", TrayAt(tray_id).bed_temp))
          [] l.at = "929" ->
               to(Goto(l, "930"),
                  SetState(m, "nozzle_target_temp", TrayAt(tray_id).nozzle_temp_min + 10))
          [] l.at = "930" -> to(Goto(l, "939"), [m EXCEPT !.tray_now = tray_id])
          [] l.at = "939" -> to(NoLocals, Send(m, Reply("start_print", "success", sequence_id)))
          [] l.at = "942" -> to(Goto(l, "950"), SetState(m, "print_status", "PAUSED"))
          [] l.at = "950" -> to(NoLocals, Send(m, Reply("pause", "success", sequence_id)))
          [] l.at = "953" -> to(Goto(l, "961"), SetState(m, "print_status", "RUNNING"))
          [] l.at = "961" -> to(NoLocals, Send(m, Reply("resume", "success", sequence_id)))
          [] l.at = "965" -> to(Goto(l, Called(th, m)), m)
          [] l.at = "967" -> to(Goto(l, "968"), SetState(m, "print_status", "IDLE"))
          [] l.at = "968" -> to(Goto(l, "969"), SetState(m, "progress", 0))
          [] l.at = "969" -> to(Goto(l, "970"), SetState(m, "bed_target_temp", 0))
          [] l.at = "970" -> to(Goto(l, "971"), SetState(m, "nozzle_target_temp", 0))
          [] l.at = "971" -> to(Goto(l, "979"), [m EXCEPT !.tray_now = TRAY_NONE])
          [] l.at = "979" -> to(NoLocals, Send(m, Reply("stop", "success", sequence_id)))
          \* _record_print_completion
          [] l.at = "1061" ->
               to([l EXCEPT !.at = "1092",
                            !.entry = [id |-> Len(m.print_history) + 1,
                                       gcode_file |-> m.current_file,
                                       start_time |-> m.state.print_start_time,
                                       end_time |-> t,
                                       cost_time |-> t - m.state.print_start_time,
                                       result |-> IF th = 0 THEN "success" ELSE "failed",
                                       reason |-> IF th = 0 THEN 0 ELSE CANCEL_REASON,
                                       layers |-> m.state.layer_num]],
                  m)
          [] l.at = "1092" ->
               to([l EXCEPT !.at = "1094", !.entry = <<>>],
                  [m EXCEPT !.print_history = <<l.entry>> \o @])
          [] l.at = "1094" ->
               to(Goto(l, IF Len(m.print_history) > HISTORY_CAP THEN "1095r" ELSE ReturnTo(th)),
                  m)
          [] l.at = "1095r" ->
               to([l EXCEPT !.at = "1095w",
                            !.slice = SubSeq(m.print_history, 1, HISTORY_CAP)], m)
          [] l.at = "1095w" ->
               to([l EXCEPT !.at = ReturnTo(th), !.slice = <<>>],
                  [m EXCEPT !.print_history = l.slice])
          \* the progress branch of _simulate_printer
          [] l.at = "1187" ->
               to(Goto(l, IF m.state.print_status = "RUNNING" THEN "1188" ELSE "1207"), m)
          [] l.at = "1188" ->
               to(Goto(l, IF Unfinished(m.state.progress) THEN "1189r" ELSE "1200"), m)
          [] l.at = "1189r" -> to([l EXCEPT !.at = "1189w", !.tmp = m.state.progress], m)
          [] l.at = "1189w" ->
               to([l EXCEPT !.at = "1190r", !.tmp = 0], SetState(m, "progress", l.tmp + 10))
          [] l.at = "1190r" -> to([l EXCEPT !.at = "1190w", !.tmp = m.state.progress], m)
          [] l.at = "1190w" ->
               to([l EXCEPT !.at = "1191r", !.tmp = 0],
                  SetState(m, "remaining_time", (100 - l.tmp) * 36))
          [] l.at = "1191r" -> to([l EXCEPT !.at = "1191w", !.tmp = m.state.progress], m)
          [] l.at = "1191w" ->
               to([l EXCEPT !.at = "1194", !.tmp = 0], SetState(m, "layer_num", l.tmp))
          [] l.at = "1194" -> to(Goto(l, IF m.tray_now # TRAY_NONE THEN "1195" ELSE "1207"), m)
          [] l.at = "1195" ->
               IF TrayIndexOk(m.tray_now) THEN to(Goto(l, "1207"), m)
               ELSE to(Goto(l, "dead"), Raise(m))
          [] l.at = "1200" -> to(Goto(l, Called(th, m)), m)
          [] l.at = "1202" -> to(Goto(l, "1203"), SetState(m, "print_status", "IDLE"))
          [] l.at = "1203" -> to(Goto(l, "1204"), SetState(m, "progress", 100))
          [] l.at = "1204" -> to(Goto(l, "1207"), SetState(m, "remaining_time", 0))
          [] l.at = "1207" -> to(NoLocals, m)

\* the clock readings and the broadcast decisions a statement can make
StatementClock(th) == IF thr.loc[th].at = "1061" THEN Clock ELSE {0}
StatementDue(th) == IF thr.loc[th].at = "1207" THEN BOOLEAN ELSE {FALSE}

\* a thread executes the statement it is at
Statement(th, t, due) ==
    /\ running
    /\ thr.loc[th].at \notin {"idle", "dead"}
    /\ LET r == Exec(th, thr.loc[th],
                     Machine(state, tray_now, current_file, print_history), t)
       IN  /\ thr' = [thr EXCEPT !.loc[th] = r.l,
                                 !.log = IF thr.loc[th].at = "1092"
                                         THEN <<thr.loc[th].entry>> \o @ ELSE @]
           /\ state' = r.m.state
           /\ tray_now' = r.m.tray_now
           /\ current_file' = r.m.current_file
           /\ print_history' = r.m.print_history
           /\ sent' = IF th = 0 THEN <<>> ELSE To(th, r.m.out)
           /\ sim' = IF th = 0 /\ r.m.raised THEN "dead" ELSE sim
    /\ bcast' = IF due THEN _broadcast_status ELSE {}
    /\ UNCHANGED <<serial_number, running, clients, authenticated_clients, conn,
                   authenticated, pc, connacks, npackets, last>>

\* a worker reads a PUBLISH and enters the branch of its command, which
\* its locals keep
Begin(s, pkt) ==
    /\ CanRead(s)
    /\ authenticated[s]
    /\ thr.loc[s].at = "idle"
    /\ thr' = [thr EXCEPT !.loc[s] = [NoLocals EXCEPT !.at = BranchOf(pkt.message[1]),
                                                      !.cmd = pkt.message[1]]]
    /\ npackets' = npackets + 1
    /\ sent' = <<>>
    /\ bcast' = {}
    /\ UNCHANGED <<serial_number, running, sim, state, tray_now, current_file, print_history,
                   clients, authenticated_clients, conn, authenticated, pc,
                   connacks, last>>

\* the background loop wakes up for its next iteration
Iterate ==
    /\ running
    /\ sim = "running"
    /\ thr.loc[0].at = "idle"
    /\ thr.iterations < MaxIterations
    /\ thr' = [thr EXCEPT !.loc[0] = Goto(@, "1187"), !.iterations = @ + 1]
    /\ sent' = <<>>
    /\ bcast' = {}
    /\ UNCHANGED <<serial_number, running, sim, state, tray_now, current_file, print_history,
                   clients, authenticated_clients, conn, authenticated, pc,
                   connacks, npackets, last>>

ThreadCommands == {[command |-> c] : c \in {"start_print", "stop"}}

\* the shared objects after construction, and after a start command and n
\* iterations of the background loop
Fresh == Machine(InitState, TRAY_NONE, "", SeedHistory)

RECURSIVE Ticks(_, _)
Ticks(m, n) == IF n = 0 THEN m ELSE Ticks(Progress(m, 0), n - 1)

Printing(n) == Ticks(Dispatch(Fresh, [command |-> "start_print"], 0), n)

\* the sessions whose workers are followed
Workers == {1, 2}

\* two sessions accepted and authenticated, on a job that is one iteration
\* from progress 100
InitThreads ==
    /\ serial_number = DEFAULT_SERIAL
    /\ running = TRUE
    /\ state = Printing(9).state
    /\ tray_now = Printing(9).tray_now
    /\ current_file = Printing(9).current_file
    /\ print_history = Printing(9).print_history
    /\ clients = Workers
    /\ authenticated_clients = Workers
    /\ conn = [s \in Sessions |-> IF s \in Workers THEN "open" ELSE "none"]
    /\ authenticated = [s \in Sessions |-> s \in Workers]
    /\ pc = [s \in Sessions |-> IF s \in Workers THEN "read" ELSE "idle"]
    /\ connacks = [s \in Sessions |-> IF s \in Workers THEN <<0>> ELSE <<>>]
    /\ npackets = 0
    /\ sim = "running"
    /\ last = [by |-> 1, pkt |-> [type |-> "CONNECT_PUSH"]]
    /\ sent = <<>>
    /\ bcast = {}
    /\ thr = NoThreads

NextThreads ==
    \/ \E s \in Sessions : \E pkt \in PublishOf(ThreadCommands) : Begin(s, pkt)
    \/ \E th \in Threads : \E t \in StatementClock(th), due \in StatementDue(th) :
         Statement(th, t, due)
    \/ Iterate

SpecThreads == InitThreads /\ [][NextThreads]_vars

\* one command of one worker against one iteration of the background loop,
\* from the constructor's state, from a job at progress 50, at progress 100
\* and just finished, and from a paused job
AtomicCommands ==
    {[command |-> c] : c \in {"start_print", "stop", "pause", "resume"}}

AtomicStarts ==
    {Fresh, Printing(5), Printing(10), Printing(11),
     Dispatch(Printing(5), [command |-> "pause"], 0)}

InitAtomic ==
    \E b \in AtomicStarts, c \in AtomicCommands :
        /\ serial_number = DEFAULT_SERIAL
        /\ running = TRUE
        /\ state = b.state
        /\ tray_now = b.tray_now
        /\ current_file = b.current_file
        /\ print_history = b.print_history
        /\ clients = {1}
        /\ authenticated_clients = {1}
        /\ conn = [s \in Sessions |-> IF s = 1 THEN "open" ELSE "none"]
        /\ authenticated = [s \in Sessions |-> s = 1]
        /\ pc = [s \in Sessions |-> IF s = 1 THEN "read" ELSE "idle"]
        /\ connacks = [s \in Sessions |-> IF s = 1 THEN <<0>> ELSE <<>>]
        /\ npackets = 1
        /\ sim = "running"
        /\ last = [by |-> 1, pkt |-> [type |-> "PUBLISH", qos |-> 0, json |-> TRUE,
                                      message |-> <<c>>]]
        /\ sent = <<>>
        /\ bcast = {}
        /\ thr = [NoThreads EXCEPT
                    !.loc = [th \in Threads |->
                               CASE th = 0 -> Goto(NoLocals, "1187")
                                 [] th = 1 -> [NoLocals EXCEPT !.at = BranchOf(c), !.cmd = c]
                                 [] OTHER -> NoLocals],
                    !.snap = <<[m |-> Machine(b.state, b.tray_now, b.current_file,
                                              b.print_history),
                                cmd |-> c]>>,
                    !.iterations = 1]

NextAtomic ==
    \E th \in Threads : \E t \in StatementClock(th), due \in StatementDue(th) :
        Statement(th, t, due)

SpecAtomic == InitAtomic /\ [][NextAtomic]_vars

\* --------------------------------------- broadcasts and failing sockets
\* the peer of a session goes away: from now on a send on its socket fails
PeerGone(s) ==
    /\ conn[s] = "open"
    /\ conn' = [conn EXCEPT ![s] = "broken"]
    /\ last' = [by |-> s, pkt |-> [type |-> "PEER_GONE"]]
    /\ sent' = <<>>
    /\ bcast' = {}
    /\ UNCHANGED <<serial_number, thr, running, sim, state, tray_now, current_file,
                   print_history, clients, authenticated_clients,
                   authenticated, pc, connacks, npackets>>

\* the worker's recv on a broken socket returns nothing or raises: it
\* leaves its loop and runs the finally clause
RecvReset(s) ==
    /\ running
    /\ conn[s] = "broken"
    /\ pc[s] = "read"
    /\ Close(s)
    /\ last' = [by |-> s, pkt |-> [type |-> "RESET"]]
    /\ sent' = <<>>
    /\ bcast' = {}
    /\ UNCHANGED <<serial_number, thr, running, sim, state, tray_now, current_file,
                   print_history, authenticated, connacks, npackets>>

InitBroadcast == Serving(InitState, SeedHistory)

\* sessions come, authenticate or are refused, subscribe and go; no
\* commands
NextBroadcast ==
    \/ \E s \in Sessions : accept(s)
    \/ \E s \in Sessions : \E pkt \in ConnectPackets : RecvConnect(s, pkt)
    \/ \E s \in Sessions : ConnectAdd(s)
    \/ \E s \in Sessions : ConnectPush(s)
    \/ \E s \in Sessions : \E pkt \in SubscribePackets : RecvSubscribe(s, pkt)
    \/ \E s \in Sessions : \E pkt \in ClosePackets : RecvClose(s, pkt)
    \/ \E s \in Sessions : PeerGone(s)
    \/ \E s \in Sessions : RecvReset(s)
    \/ \E t \in TickClock, due \in BOOLEAN : _simulate_printer(t, due)

SpecBroadcast == InitBroadcast /\ [][NextBroadcast]_vars

\* ------------------------------------------ the acceptor, in two steps
\* lines 533-541: the TLS client is wrapped and its worker thread started
Spawn(s) ==
    /\ running
    /\ conn[s] = "none"
    /\ thr.tracking = {}
    /\ conn' = [conn EXCEPT ![s] = "open"]
    /\ pc' = [pc EXCEPT ![s] = "read"]
    /\ thr' = [thr EXCEPT !.tracking = {s}]
    /\ last' = [by |-> s, pkt |-> [type |-> "SPAWN"]]
    /\ sent' = <<>>
    /\ bcast' = {}
    /\ UNCHANGED <<serial_number, running, sim, state, tray_now, current_file, print_history,
                   clients, authenticated_clients, authenticated, connacks,
                   npackets>>

\* line 542: self.clients.append(ssl_client)
Track(s) ==
    /\ s \in thr.tracking
    /\ clients' = clients \cup {s}
    /\ thr' = [thr EXCEPT !.tracking = {}]
    /\ last' = [by |-> 0, pkt |-> [type |-> "TRACK"]]
    /\ sent' = <<>>
    /\ bcast' = {}
    /\ UNCHANGED <<serial_number, running, sim, state, tray_now, current_file, print_history,
                   authenticated_clients, conn, authenticated, pc, connacks,
                   npackets>>

\* the ways a worker leaves its loop on a packet: DISCONNECT, the end of
\* the stream, a payload shorter than the declared remaining length
ExitPackets == ClosePackets \cup {[type |-> "INCOMPLETE"]}

\* sessions come, authenticate or are refused, ping and leave, or lose
\* their peer, while the acceptor and the background loop run
NextAccept ==
    \/ start
    \/ \E s \in Sessions : Spawn(s)
    \/ \E s \in Sessions : Track(s)
    \/ \E s \in Sessions : \E pkt \in ConnectPackets : RecvConnect(s, pkt)
    \/ \E s \in Sessions : ConnectAdd(s)
    \/ \E s \in Sessions : ConnectPush(s)
    \/ \E s \in Sessions : RecvPingreq(s)
    \/ \E s \in Sessions : \E pkt \in ExitPackets : RecvClose(s, pkt)
    \/ \E s \in Sessions : PeerGone(s)
    \/ \E s \in Sessions : RecvReset(s)
    \/ \E t \in TickClock, due \in BOOLEAN : _simulate_printer(t, due)

SpecAccept == Init /\ [][NextAccept]_vars

\* ------------------------------------------- the byte stream of a worker
\* a packet as the stream delivers it: remaining_length is the length the
\* fixed header declares, received the number of bytes that
\* recv(remaining_length) returned
Framed(pkt, n) ==
    {[f \in DOMAIN pkt \cup {"remaining_length", "received"} |->
        IF f = "remaining_length" THEN n
        ELSE IF f = "received" THEN r
        ELSE pkt[f]] : r \in {0, n - 1, n}}

StreamCommands ==
    {[command |-> "start_print", ams_tray |-> 2, sequence_id |-> "42"],
     [command |-> "stop"],
     [command |-> "pause"],
     [command |-> "get_version"]}

StreamPackets ==
    UNION {Framed(pkt, 40) : pkt \in PublishOf(StreamCommands)}
    \cup UNION {Framed(pkt, 12) : pkt \in SubscribePackets}
    \cup {[type |-> "PINGREQ", remaining_length |-> 0, received |-> 0],
          [type |-> "DISCONNECT", remaining_length |-> 0, received |-> 0],
          [type |-> "EOF", in |-> "first_byte"],
          [type |-> "EOF", in |-> "remaining_length"]}

\* a length test that lets every payload through
Short_Never(pkt) == FALSE

\* lines 608-613: a payload was asked for and came back with another length
Short(pkt) ==
    pkt.remaining_length > 0 /\ pkt.received # pkt.remaining_length

\* one pass of the worker's loop over what the stream delivers
recv(s, pkt, t) ==
    \/ /\ pkt.type = "EOF"
       /\ RecvClose(s, pkt)
    \/ /\ pkt.type # "EOF" /\ Short(pkt)
       /\ RecvClose(s, [type |-> "INCOMPLETE", of |-> pkt])
    \/ /\ pkt.type = "PUBLISH" /\ ~Short(pkt)
       /\ RecvPublish(s, pkt, t)
    \/ /\ pkt.type = "SUBSCRIBE" /\ ~Short(pkt)
       /\ RecvSubscribe(s, pkt)
    \/ /\ pkt.type = "PINGREQ" /\ ~Short(pkt)
       /\ RecvPingreq(s)
    \/ /\ pkt.type = "DISCONNECT" /\ ~Short(pkt)
       /\ RecvClose(s, pkt)

InitStream == Serving(InitState, SeedHistory)

NextStream ==
    \/ \E s \in Sessions : accept(s)
    \/ \E s \in Sessions : \E pkt \in StreamPackets : \E t \in Clock : recv(s, pkt, t)
    \/ \E t \in TickClock, due \in BOOLEAN : _simulate_printer(t, due)

SpecStream == InitStream /\ [][NextStream]_vars

\* ------------------------------------ _handle_mqtt_publish, in two steps
\* PUBLISH packets of every QoS, with and without a JSON body
AckPackets ==
    {[type |-> "PUBLISH", qos |-> 0, json |-> TRUE, message |-> <<c>>] :
        c \in StreamCommands}
    \cup {[type |-> "PUBLISH", qos |-> q, packet_id |-> i, json |-> TRUE,
           message |-> <<c>>] : q \in {1, 2}, i \in {9, 10}, c \in StreamCommands}
    \cup {[type |-> "PUBLISH", qos |-> 1, packet_id |-> 9, json |-> FALSE],
          [type |-> "PUBLISH", qos |-> 0, json |-> FALSE]}

\* a handler that acknowledges nothing
Acknowledged_Never(pkt) == FALSE

\* line 756: the packets that get a PUBACK
Acknowledged(pkt) == pkt.qos = 1 /\ "packet_id" \in DOMAIN pkt

\* lines 733-759: the header is parsed and the PUBACK sent
PublishHead(s, pkt) ==
    /\ CanRead(s)
    /\ npackets' = npackets + 1
    /\ last' = [by |-> s, pkt |-> pkt]
    /\ bcast' = {}
    /\ IF authenticated[s]
       THEN /\ sent' = To(s, IF Acknowledged(pkt)
                             THEN <<Puback(pkt.packet_id)>> ELSE <<>>)
            /\ pc' = [pc EXCEPT ![s] = "publish_body"]
            /\ thr' = [thr EXCEPT !.loc[s].cmd = pkt]
       ELSE /\ sent' = <<>>
            /\ UNCHANGED <<pc, thr>>
    /\ UNCHANGED <<serial_number, running, sim, state, tray_now, current_file, print_history,
                   clients, authenticated_clients, conn, authenticated, connacks>>

\* lines 762-766: the body is parsed and handed to _handle_command
PublishBody(s, t) ==
    /\ pc[s] = "publish_body"
    /\ LET pkt == thr.loc[s].cmd
           m == Machine(state, tray_now, current_file, print_history)
       IN  /\ Commit(s, IF pkt.json THEN _handle_command(m, pkt.message, t) ELSE m)
           /\ last' = [by |-> s, pkt |-> [type |-> "PUBLISH_BODY", of |-> pkt]]
    /\ pc' = [pc EXCEPT ![s] = "read"]
    /\ thr' = [thr EXCEPT !.loc[s].cmd = <<>>]
    /\ bcast' = {}
    /\ UNCHANGED <<serial_number, running, sim, clients, authenticated_clients, conn,
                   authenticated, connacks, npackets>>

InitAck == Serving(InitState, SeedHistory)

NextAck ==
    \/ \E s \in Sessions : accept(s)
    \/ \E s \in Sessions : \E pkt \in AckPackets : PublishHead(s, pkt)
    \/ \E s \in Sessions :
         /\ pc[s] = "publish_body"
         /\ \E t \in ClockOf(thr.loc[s].cmd) : PublishBody(s, t)
    \/ \E t \in TickClock, due \in BOOLEAN : _simulate_printer(t, due)

SpecAck == InitAck /\ [][NextAck]_vars

\* ------------------------------------------------------- subscriptions
\* SUBSCRIBE packets with one to three (topic, requested QoS) pairs; qos is
\* the sequence of requested QoS bytes in the order of the pairs
SubscribeRequests ==
    {[type |-> "SUBSCRIBE", packet_id |-> p, qos |-> q] :
        p \in {3, 4},
        q \in {<<0>>, <<1>>, <<2, 0>>, <<0, 1>>, <<1, 1, 2>>, <<2, 0, 1>>}}

InitSubscribe == Serving(InitState, SeedHistory)

NextSubscribe ==
    \/ \E s \in Sessions : accept(s)
    \/ \E s \in Sessions : \E pkt \in ConnectPackets : RecvConnect(s, pkt)
    \/ \E s \in Sessions : ConnectAdd(s)
    \/ \E s \in Sessions : ConnectPush(s)
    \/ \E s \in Sessions : \E pkt \in SubscribeRequests : RecvSubscribe(s, pkt)
    \/ \E t \in TickClock, due \in BOOLEAN : _simulate_printer(t, due)

SpecSubscribe == InitSubscribe /\ [][NextSubscribe]_vars

\* ------------------------------------------------------ the packet codec
\* A byte string is a sequence of segments: a literal byte ("lit", its
\* value in from and to) or a run of bytes from..to (1-based, not empty) of
\* the topic or of the JSON text, whose contents are left open.
Lit(v) == [src |-> "lit", from |-> v, to |-> v]
Run(src, n) == IF n = 0 THEN <<>> ELSE <<[src |-> src, from |-> 1, to |-> n]>>
SegLen(seg) == IF seg.src = "lit" THEN 1 ELSE seg.to - seg.from + 1

RECURSIVE Length(_)
Length(bs) == IF bs = <<>> THEN 0 ELSE SegLen(Head(bs)) + Length(Tail(bs))

\* the first n bytes of a segment, and the segment without them
SegTake(seg, n) == IF seg.src = "lit" THEN seg ELSE [seg EXCEPT !.to = seg.from + n - 1]
SegDrop(seg, n) == IF seg.src = "lit" THEN seg ELSE [seg EXCEPT !.from = seg.from + n]

\* bs[:n] and bs[n:]
RECURSIVE Take(_, _)
Take(bs, n) ==
    IF n <= 0 \/ bs = <<>> THEN <<>>
    ELSE IF SegLen(Head(bs)) <= n
         THEN <<Head(bs)>> \o Take(Tail(bs), n - SegLen(Head(bs)))
         ELSE <<SegTake(Head(bs), n)>>

RECURSIVE Drop(_, _)
Drop(bs, n) ==
    IF n <= 0 \/ bs = <<>> THEN bs
    ELSE IF SegLen(Head(bs)) <= n
         THEN Drop(Tail(bs), n - SegLen(Head(bs)))
         ELSE <<SegDrop(Head(bs), n)>> \o Tail(bs)

\* bs[a:b] for 0 <= a
Slice(bs, a, b) == Take(Drop(bs, a), b - a)

\* struct.pack(">H", x) and struct.unpack(">H", bs)[0]; the latter raises
\* struct.error unless it is given two bytes
Pack16(x) == <<Lit(x \div 256), Lit(x % 256)>>
CanUnpack16(bs) == Len(bs) = 2 /\ bs[1].src = "lit" /\ bs[2].src = "lit"
Unpack16(bs) == bs[1].from * 256 + bs[2].from

\* lines 840-849: the remaining length in base 128, low digit first
RECURSIVE EncodeLength(_)
EncodeLength(remaining_length) ==
    LET byte == remaining_length % 128
        rest == remaining_length \div 128
    IN  IF rest > 0
        THEN <<Lit(byte + 128)>> \o EncodeLength(rest)
        ELSE <<Lit(byte)>>

\* lines 818-849: the three parts of the packet _send_mqtt_publish builds
\* for a topic of k bytes and a JSON text of n bytes
PublishParts(k, n, qos) ==
    LET payload == Run("body", n)
        topic_bytes == Run("topic", k)
        variable_header ==
            Pack16(k) \o topic_bytes
            \o (IF qos > 0 THEN Pack16(1) ELSE <<>>)
            \o payload
    IN  [packet_type |-> 48 + 2 * qos,
         encoded_length |-> EncodeLength(Length(variable_header)),
         variable_header |-> variable_header]

\* lines 852-854: the packet
EncodePublish(k, n, qos) ==
    LET parts == PublishParts(k, n, qos)
    IN  <<Lit(parts.packet_type)>> \o parts.encoded_length \o parts.variable_header

\* line 856 on the wrapped socket: sendall hands the packet to TLS, which
\* carries it in records of at most TLS_RECORD bytes
RECURSIVE Records(_)
Records(bs) ==
    IF bs = <<>> THEN <<>>
    ELSE <<Take(bs, TLS_RECORD)>> \o Records(Drop(bs, TLS_RECORD))

\* client_socket.recv(n) on a stream of records: up to n bytes of the
\* record at the head, none when the stream has ended
Recv(stream, n) ==
    IF stream = <<>> THEN <<>> ELSE Take(Head(stream), n)

\* the stream after recv(n)
After(stream, n) ==
    IF stream = <<>> THEN <<>>
    ELSE IF Length(Head(stream)) <= n
         THEN Tail(stream)
         ELSE <<Drop(Head(stream), n)>> \o Tail(stream)

\* lines 594-604: the remaining-length loop; ok is FALSE when the stream
\* ends inside the field
RECURSIVE DecodeLength(_, _, _)
DecodeLength(stream, remaining_length, multiplier) ==
    LET byte_data == Recv(stream, 1)
    IN  IF byte_data = <<>>
        THEN [ok |-> FALSE, remaining_length |-> remaining_length, stream |-> stream]
        ELSE LET byte == byte_data[1].from
                 total == remaining_length + (byte % 128) * multiplier
             IN  IF byte < 128
                 THEN [ok |-> TRUE, remaining_length |-> total,
                       stream |-> After(stream, 1)]
                 ELSE DecodeLength(After(stream, 1), total, multiplier * 128)

\* lines 733-751: the fields _handle_mqtt_publish takes from a payload
DecodePublish(flags, payload) ==
    LET qos == (flags \div 2) % 4
    IN  IF ~CanUnpack16(Slice(payload, 0, 2))
        THEN [error |-> "struct.error"]
        ELSE LET topic_len == Unpack16(Slice(payload, 0, 2))
                 topic == Slice(payload, 2, 2 + topic_len)
                 offset == 2 + topic_len
             IN  IF qos > 0
                 THEN IF ~CanUnpack16(Slice(payload, offset, offset + 2))
                      THEN [error |-> "struct.error"]
                      ELSE [qos |-> qos, topic |-> topic,
                            packet_id |-> Unpack16(Slice(payload, offset, offset + 2)),
                            message_payload |-> Drop(payload, offset + 2)]
                 ELSE [qos |-> qos, topic |-> topic,
                       message_payload |-> Drop(payload, offset)]

\* lines 587-622: one pass of the worker's loop over a stream
Decode(stream) ==
    LET first_byte == Recv(stream, 1)
    IN  IF first_byte = <<>>
        THEN [error |-> "end of stream"]
        ELSE LET packet_type == (first_byte[1].from \div 16) % 16
                 len == DecodeLength(After(stream, 1), 0, 1)
             IN  IF ~len.ok
                 THEN [error |-> "end of stream"]
                 ELSE LET payload == IF len.remaining_length > 0
                                     THEN Recv(len.stream, len.remaining_length)
                                     ELSE <<>>
                      IN  IF Length(payload) # len.remaining_length
                          THEN [error |-> "Incomplete packet received",
                                packet_type |-> packet_type,
                                remaining_length |-> len.remaining_length]
                          ELSE [packet_type |-> packet_type,
                                remaining_length |-> len.remaining_length,
                                publish |-> DecodePublish(first_byte[1].from, payload)]

\* the topic lengths, JSON text lengths and QoS the encoder is given
TopicLengths == {0, 29}
BodyLengths == 0..MaxBody
QosLevels == {0, 1}

\* the simulator up and serving, about to encode one PUBLISH
InitCodec ==
    /\ serial_number = DEFAULT_SERIAL
    /\ running = TRUE
    /\ state = InitState
    /\ tray_now = TRAY_NONE
    /\ current_file = ""
    /\ print_history = SeedHistory
    /\ clients = {1}
    /\ authenticated_clients = {1}
    /\ conn = [s \in Sessions |-> IF s = 1 THEN "open" ELSE "none"]
    /\ authenticated = [s \in Sessions |-> s = 1]
    /\ pc = [s \in Sessions |-> IF s = 1 THEN "read" ELSE "idle"]
    /\ connacks = [s \in Sessions |-> IF s = 1 THEN <<0>> ELSE <<>>]
    /\ npackets = 0
    /\ sim = "running"
    /\ \E k \in TopicLengths, n \in BodyLengths, q \in QosLevels :
         last = [by |-> 1, pkt |-> [type |-> "ENCODE", topic_len |-> k,
                                    body_len |-> n, qos |-> q]]
    /\ sent = <<>>
    /\ bcast = {}
    /\ thr = NoThreads

\* the packet is built, sent over the wrapped socket and read back by the
\* worker's decoder
RoundTrip ==
    /\ last.pkt.type = "ENCODE"
    /\ LET k == last.pkt.topic_len
           n == last.pkt.body_len
           packet == EncodePublish(k, n, last.pkt.qos)
       IN  last' = [by |-> 1,
                    pkt |-> [type |-> "DECODE", topic_len |-> k, body_len |-> n,
                             qos |-> last.pkt.qos,
                             follows |-> Length(PublishParts(k, n, last.pkt.qos)
                                                    .variable_header),
                             decoded |-> Decode(Records(packet))]]
    /\ UNCHANGED <<serial_number, running, sim, state, tray_now, current_file, print_history,
                   clients, authenticated_clients, conn, authenticated, pc,
                   connacks, npackets, sent, bcast, thr>>

NextCodec == RoundTrip

SpecCodec == InitCodec /\ [][NextCodec]_vars

\* ------------------------------------------------------ the domain keys
\* JSON objects with one top-level key: keys[i] is the key under which
\* message[i] arrived (line 901 takes both from message.items())
DomainKeys == {"print", "system", "info", "ams"}

DomainCommands ==
    {[command |-> c, sequence_id |-> "42"] :
        c \in {"pause", "resume", "stop", "start_print", "get_version",
               "get_history", "gcode_line", "calibrate"}}
    \cup {[command |-> "change_filament", target_ams |-> 2, sequence_id |-> "42"],
          [command |-> "ams_change_filament", target |-> 2],
          [command |-> "pause"]}

DomainPackets ==
    {[type |-> "PUBLISH", qos |-> 0, json |-> TRUE, keys |-> <<k>>,
      message |-> <<c>>] : k \in DomainKeys, c \in DomainCommands}

InitDomain == Serving(InitState, SeedHistory)

NextDomain ==
    \/ \E s \in Sessions : \E pkt \in DomainPackets :
         \E t \in ClockOf(pkt) : RecvPublish(s, pkt, t)
    \/ \E t \in TickClock, due \in BOOLEAN : _simulate_printer(t, due)

SpecDomain == InitDomain /\ [][NextDomain]_vars

\* ----------------------------------------------------- the report topic
\* the serial numbers the constructor is given: its default and another
Serials == {DEFAULT_SERIAL, "00M09A987654321"}

InitSerial == \E sn \in Serials : ServingAs(sn, InitState, SeedHistory)

NextSerial ==
    \/ \E s \in Sessions : accept(s)
    \/ \E s \in Sessions : \E pkt \in ConnectPackets : RecvConnect(s, pkt)
    \/ \E s \in Sessions : ConnectAdd(s)
    \/ \E s \in Sessions : ConnectPush(s)
    \/ \E s \in Sessions : \E pkt \in PublishOf(StreamCommands) :
         \E t \in ClockOf(pkt) : RecvPublish(s, pkt, t)
    \/ \E t \in TickClock, due \in BOOLEAN : _simulate_printer(t, due)

SpecSerial == InitSerial /\ [][NextSerial]_vars

\* --------------------------------------------------- gcode_line commands
\* the values of the gcode field: lines of the four instructions in several
\* spellings, lines without a number, other lines, and a JSON number
GcodeValues ==
    {Str(<<"M", "1", "0", "4", " ", "S", "2", "1", "0">>),
     Str(<<"m", "1", "0", "4", " ", "s", "2", "1", "5">>),
     Str(<<" ", "M", "1", "4", "0", " ", "S", "6", "0", " ">>),
     Str(<<"M", "1", "4", "0", " ", "S", "0">>),
     Str(<<"M", "1", "0", "6", " ", "S", "1", "2", "8">>),
     Str(<<"M", "1", "0", "6", " ", "S", "2", "5", "5">>),
     Str(<<"M", "1", "0", "6", " ", "S", "2", "5", "4">>),
     Str(<<"M", "1", "0", "7">>),
     Str(<<"G", "2", "8">>),
     Str(<<>>),
     Str(<<"M", "1", "0", "4">>),
     Str(<<"M", "1", "0", "4", " ", "S", "X">>),
     Str(<<"M", "1", "4", "0", " ", "S">>),
     Str(<<"M", "1", "0", "6", " ", "S", "-">>),
     Str(<<"M", "1", "0", "4", "0", " ", "S", "5">>),
     [num |-> 7]}

GcodeCommands ==
    {[command |-> "gcode_line", gcode |-> g, sequence_id |-> "42"] : g \in GcodeValues}
    \cup {[command |-> "gcode_line"]}

InitGcode == Serving(InitState, SeedHistory)

NextGcode ==
    \/ \E s \in Sessions : \E pkt \in PublishOf(GcodeCommands) : RecvPublish(s, pkt, 0)
    \/ \E t \in TickClock, due \in BOOLEAN : _simulate_printer(t, due)

SpecGcode == InitGcode /\ [][NextGcode]_vars

\* ---------------------------------------------------------------- stop()
\* list.remove(s)
Remove(list, s) == SelectSeq(list, LAMBDA x : x # s)

\* every session accepted in turn and tracked, session 1 authenticated
InitStop ==
    /\ serial_number = DEFAULT_SERIAL
    /\ running = TRUE
    /\ state = InitState
    /\ tray_now = TRAY_NONE
    /\ current_file = ""
    /\ print_history = SeedHistory
    /\ clients = Sessions
    /\ authenticated_clients = {1}
    /\ conn = [s \in Sessions |-> "open"]
    /\ authenticated = [s \in Sessions |-> s = 1]
    /\ pc = [s \in Sessions |-> "read"]
    /\ connacks = [s \in Sessions |-> IF s = 1 THEN <<0>> ELSE <<>>]
    /\ npackets = 0
    /\ sim = "running"
    /\ last = [by |-> 1, pkt |-> [type |-> "CONNECT_PUSH"]]
    /\ sent = <<>>
    /\ bcast = {}
    /\ thr = [NoThreads EXCEPT !.order = [i \in 1..NumSessions |-> i]]

\* line 556: self.running = False, then the for loop over self.clients
StopFlag ==
    /\ running
    /\ thr.stop.at = "idle"
    /\ running' = FALSE
    /\ thr' = [thr EXCEPT !.stop = [at |-> "clients", i |-> 0]]
    /\ last' = [by |-> 0, pkt |-> [type |-> "STOP"]]
    /\ sent' = <<>>
    /\ bcast' = {}
    /\ UNCHANGED <<serial_number, sim, state, tray_now, current_file, print_history,
                   clients, authenticated_clients, conn, authenticated, pc,
                   connacks, npackets>>

\* lines 559-563: the list iterator yields the element at its index, if the
\* list still has one there, and the socket is closed
StopClose ==
    /\ thr.stop.at = "clients"
    /\ IF thr.stop.i < Len(thr.order)
       THEN /\ conn' = [conn EXCEPT ![thr.order[thr.stop.i + 1]] = "closed"]
            /\ thr' = [thr EXCEPT !.stop.i = @ + 1]
       ELSE /\ thr' = [thr EXCEPT !.stop.at = "sockets"]
            /\ UNCHANGED conn
    /\ last' = [by |-> 0, pkt |-> [type |-> "STOP_CLOSE"]]
    /\ sent' = <<>>
    /\ bcast' = {}
    /\ UNCHANGED <<serial_number, running, sim, state, tray_now, current_file,
                   print_history, clients, authenticated_clients, authenticated,
                   pc, connacks, npackets>>

\* lines 573-576: the listening sockets are closed and stop() returns
StopSockets ==
    /\ thr.stop.at = "sockets"
    /\ thr' = [thr EXCEPT !.stop.at = "done", !.listening = FALSE]
    /\ last' = [by |-> 0, pkt |-> [type |-> "STOP_SOCKETS"]]
    /\ sent' = <<>>
    /\ bcast' = {}
    /\ UNCHANGED <<serial_number, running, sim, state, tray_now, current_file,
                   print_history, clients, authenticated_clients, conn,
                   authenticated, pc, connacks, npackets>>

\* a worker leaves: its recv returned the end of the stream or raised (the
\* peer went away, or the socket was closed under it), or the head of its
\* loop found the flag cleared; the finally clause removes and closes
Leave(s) ==
    /\ pc[s] = "read"
    /\ Close(s)
    /\ thr' = [thr EXCEPT !.order = Remove(@, s)]
    /\ last' = [by |-> s, pkt |-> [type |-> "LEAVE"]]
    /\ sent' = <<>>
    /\ bcast' = {}
    /\ UNCHANGED <<serial_number, running, sim, state, tray_now, current_file,
                   print_history, authenticated, connacks, npackets>>

\* line 526: the accept loop finds the flag cleared
AcceptorExit ==
    /\ ~running
    /\ thr.acceptor = "polling"
    /\ thr' = [thr EXCEPT !.acceptor = "done"]
    /\ last' = [by |-> 0, pkt |-> [type |-> "ACCEPTOR_EXIT"]]
    /\ sent' = <<>>
    /\ bcast' = {}
    /\ UNCHANGED <<serial_number, running, sim, state, tray_now, current_file,
                   print_history, clients, authenticated_clients, conn,
                   authenticated, pc, connacks, npackets>>

\* line 1166: the background loop finds the flag cleared
SimulationExit ==
    /\ ~running
    /\ sim = "running"
    /\ sim' = "stopped"
    /\ last' = [by |-> 0, pkt |-> [type |-> "SIMULATION_EXIT"]]
    /\ sent' = <<>>
    /\ bcast' = {}
    /\ UNCHANGED <<serial_number, thr, running, state, tray_now, current_file,
                   print_history, clients, authenticated_clients, conn,
                   authenticated, pc, connacks, npackets>>

NextStop ==
    \/ \E s \in Sessions : \E pkt \in PublishOf(StreamCommands) :
         \E t \in ClockOf(pkt) : RecvPublish(s, pkt, t)
    \/ \E s \in Sessions : RecvPingreq(s)
    \/ \E t \in TickClock, due \in BOOLEAN : _simulate_printer(t, due)
    \/ \E s \in Sessions : Leave(s)
    \/ StopFlag
    \/ StopClose
    \/ StopSockets
    \/ AcceptorExit
    \/ SimulationExit

SpecStop == InitStop /\ [][NextStop]_vars

\* ------------------------------------------- the jobs and their endings
\* the tests of lines 1187-1188 that lead to the finishing branch
Finishing(st) == st.print_status = "RUNNING" /\ ~Unfinished(st.progress)

\* the message carries a start command that the dispatcher will run
Starting(s, pkt) ==
    /\ authenticated[s]
    /\ pkt.json
    /\ Get(pkt.message[1], "command", "") \in {"start_print", "project_file"}

JobCommands ==
    {[command |-> c] : c \in {"start_print", "pause", "resume", "stop"}}

InitJob == Serving(InitState, SeedHistory)

\* a command, a start among them opening a new job
JobCommand(s, pkt, t) ==
    /\ PublishStep(s, pkt, t)
    /\ thr' = [thr EXCEPT !.completions = IF Starting(s, pkt) THEN 0 ELSE @]

\* an iteration of the background loop, its finishing branch counted
JobIteration(t, due) ==
    /\ thr.completions < MaxCompletions
    /\ Iteration(t, due)
    /\ thr' = [thr EXCEPT !.completions = IF Finishing(state) THEN @ + 1 ELSE @]

NextJob ==
    \/ \E s \in Sessions : \E pkt \in PublishOf(JobCommands) :
         \E t \in ClockOf(pkt) : JobCommand(s, pkt, t)
    \/ \E t \in TickClock, due \in BOOLEAN : JobIteration(t, due)

SpecJob == InitJob /\ [][NextJob]_vars

\* ------------------------------------------------ the packets on the wire
\* the bytes the server writes for a packet other than a PUBLISH: the
\* CONNACKs of lines 710 and 720, the PUBACK of lines 756-757, the SUBACK of
\* lines 801-803 and the PINGRESP of line 630
Wire(msg) ==
    CASE msg.type = "CONNACK" -> <<Lit(32), Lit(2), Lit(0), Lit(msg.rc)>>
      [] msg.type = "PUBACK" -> <<Lit(64), Lit(2)>> \o Pack16(msg.packet_id)
      [] msg.type = "SUBACK" ->
           <<Lit(144), Lit(1 + Len(msg.granted_qos))>>
           \o Pack16(msg.packet_id)
           \o [i \in 1..Len(msg.granted_qos) |-> Lit(msg.granted_qos[i])]
      [] msg.type = "PINGRESP" -> <<Lit(208), Lit(0)>>

\* ================================================================ claims
\* the packet the step just taken has read, and by which worker
ReadStep(s, types) ==
    /\ npackets' = npackets + 1
    /\ last'.by = s
    /\ last'.pkt.type \in types

GoodCredentials(pkt) ==
    /\ "username" \in DOMAIN pkt /\ pkt.username = "bblp"
    /\ "password" \in DOMAIN pkt /\ pkt.password = "test1234"

RefusedConnect(pkt) ==
    /\ pkt.type = "CONNECT"
    /\ "malformed" \notin DOMAIN pkt
    /\ ~GoodCredentials(pkt)

\* no CONNACK 0x00 has been delivered on the session
NeverAccepted(s) == \A i \in 1..Len(connacks[s]) : connacks[s][i] # 0

\* the single command of the PUBLISH just read
CommandStep(s, names) ==
    /\ ReadStep(s, {"PUBLISH"})
    /\ last'.pkt.json
    /\ Len(last'.pkt.message) = 1
    /\ Get(last'.pkt.message[1], "command", "") \in names

TheCommand == last'.pkt.message[1]

Replied(s, command, result) ==
    \E i \in 1..Len(sent') :
        /\ sent'[i].to = s
        /\ sent'[i].msg.type = "PUBLISH"
        /\ sent'[i].msg.body.command = command
        /\ sent'[i].msg.body.result = result

\* C1: on a session on which no CONNECT has been accepted, a PUBLISH or a
\* SUBSCRIBE changes neither PrinterState nor the selected tray nor the
\* ledger, and nothing is sent.
C1_UnacceptedIsSilent ==
    [][\A s \in Sessions :
        (NeverAccepted(s) /\ ReadStep(s, {"PUBLISH", "SUBSCRIBE"}))
        => /\ state' = state
           /\ tray_now' = tray_now
           /\ print_history' = print_history
           /\ sent' = <<>>]_vars

\* C2: a CONNECT with user bblp and the access code is answered with
\* CONNACK 0x00 before the set changes; the worker then adds the session to
\* the authenticated set, then pushes one snapshot of the current state on
\* that connection, and reads no packet in between.
C2_AcceptSequence ==
    [][\A s \in Sessions :
        /\ (ReadStep(s, {"CONNECT"}) /\ GoodCredentials(last'.pkt))
           => /\ sent' = <<[to |-> s, msg |-> [type |-> "CONNACK", rc |-> 0]]>>
              /\ authenticated_clients' = authenticated_clients
              /\ pc'[s] = "connect_add"
        /\ (pc[s] = "connect_add" /\ pc'[s] # pc[s])
           => /\ authenticated_clients' = authenticated_clients \cup {s}
              /\ sent' = <<>>
              /\ npackets' = npackets
              /\ pc'[s] = "connect_push"
        /\ (pc[s] = "connect_push" /\ pc'[s] # pc[s])
           => /\ s \in authenticated_clients'
              /\ Len(sent') = 1
              /\ sent'[1].to = s
              /\ sent'[1].msg.type = "PUBLISH"
              /\ sent'[1].msg.body.command = "push_status"
              /\ sent'[1].msg.body.gcode_state = state.print_status
              /\ sent'[1].msg.body.mc_percent = state.progress
              /\ npackets' = npackets
              /\ pc'[s] = "read"
        /\ ReadStep(s, {"CONNECT", "PUBLISH", "SUBSCRIBE", "PINGREQ",
                        "DISCONNECT", "EOF"})
           => pc[s] = "read"]_vars

C2_Witness ==
    \E s \in Sessions :
        /\ last = [by |-> s, pkt |-> [type |-> "CONNECT_PUSH"]]
        /\ Len(sent) = 1 /\ sent[1].to = s
        /\ sent[1].msg.body.command = "push_status"
        /\ s \in authenticated_clients
        /\ connacks[s] = <<0>>

\* C3: a CONNECT with another user, another password or none is answered
\* with CONNACK 0x05 and adds nothing to the authenticated set; a session
\* that never got 0x00 is never in the set and never gets a broadcast.
C3_RefusedNeverAuthenticated ==
    [][\A s \in Sessions :
        /\ (ReadStep(s, {"CONNECT"}) /\ RefusedConnect(last'.pkt))
           => /\ sent' = <<[to |-> s, msg |-> [type |-> "CONNACK", rc |-> 5]]>>
              /\ authenticated_clients' = authenticated_clients
              /\ pc'[s] \notin {"connect_add", "connect_push"}
        /\ (\A i \in 1..Len(connacks'[s]) : connacks'[s][i] # 0)
           => /\ s \notin authenticated_clients'
              /\ s \notin bcast']_vars

C3_Witness ==
    \E s, o \in Sessions :
        /\ conn[s] = "open" /\ connacks[s] = <<5>>
        /\ s \notin bcast
        /\ o \in bcast

\* C4: after CONNACK 0x05 the socket stays open and tracked and the worker
\* is back at the head of its read loop; a CONNECT with the right
\* credentials read after a refusal gets 0x00 and the session is added.
C4_RefusalKeepsConnection ==
    [][\A s \in Sessions :
        /\ (ReadStep(s, {"CONNECT"}) /\ RefusedConnect(last'.pkt))
           => /\ conn'[s] = "open"
              /\ s \in clients'
              /\ pc'[s] = "read"
        /\ (ReadStep(s, {"CONNECT"}) /\ GoodCredentials(last'.pkt)
              /\ 5 \in {connacks[s][i] : i \in 1..Len(connacks[s])})
           => /\ sent' = <<[to |-> s, msg |-> [type |-> "CONNACK", rc |-> 0]]>>
              /\ pc'[s] = "connect_add"
        /\ (pc[s] = "connect_add" /\ pc'[s] # pc[s])
           => s \in authenticated_clients']_vars

C4_Witness ==
    \E s \in Sessions :
        /\ connacks[s] = <<5, 0>>
        /\ s \in authenticated_clients
        /\ conn[s] = "open"
        /\ pc[s] = "read"

StartNames == {"start_print", "project_file"}

\* C5: a start command on an authenticated session leaves status RUNNING,
\* progress 0, layer 0, total_layers 100, remaining_time 3600, and is
\* answered with result success.
C5_StartResets ==
    [][\A s \in Sessions :
        (s \in authenticated_clients /\ CommandStep(s, StartNames))
        => /\ state'.print_status = "RUNNING"
           /\ state'.progress = 0
           /\ state'.layer_num = 0
           /\ state'.total_layers = 100
           /\ state'.remaining_time = 3600
           /\ Replied(s, "start_print", "success")]_vars

\* C6: a start command sets the selected tray and the two target
\* temperatures exactly when it names a tray index in 0..3; otherwise it
\* leaves all three alone, and still sets RUNNING and replies success.
C6_StartTrayIff ==
    [][\A s \in Sessions :
        (s \in authenticated_clients /\ CommandStep(s, StartNames))
        => IF "ams_tray" \in DOMAIN TheCommand /\ TheCommand.ams_tray \in 0..3
           THEN /\ tray_now' = TheCommand.ams_tray
                /\ state'.bed_target_temp = 0
                /\ state'.nozzle_target_temp = 200
           ELSE /\ tray_now' = tray_now
                /\ state'.bed_target_temp = state.bed_target_temp
                /\ state'.nozzle_target_temp = state.nozzle_target_temp
                /\ state'.print_status = "RUNNING"
                /\ Replied(s, "start_print", "success")]_vars

\* C7: a stop command on an authenticated session puts one new record,
\* failed with reason 50331648, at the front of the ledger (up to the cap),
\* and leaves status IDLE, progress 0, both targets 0, selected tray 255;
\* the reply has result success.
C7_StopRecords ==
    [][\A s \in Sessions :
        (s \in authenticated_clients /\ CommandStep(s, {"stop"}))
        => /\ Len(print_history') = Min(Len(print_history) + 1, 50)
           /\ print_history'[1].result = "failed"
           /\ print_history'[1].reason = 50331648
           /\ SubSeq(print_history', 2, Len(print_history'))
                = SubSeq(print_history, 1, Len(print_history') - 1)
           /\ state'.print_status = "IDLE"
           /\ state'.progress = 0
           /\ state'.bed_target_temp = 0
           /\ state'.nozzle_target_temp = 0
           /\ tray_now' = 255
           /\ Replied(s, "stop", "success")]_vars

TickStep == last'.pkt.type = "TICK"

\* C8: from RUNNING at progress 90 the tick reaches progress 100 in one
\* iteration and IDLE in the next, with progress 100 and remaining_time 0,
\* and the iteration that finishes the job puts exactly one record, with
\* result success, at the front of the ledger.
C8_NaturalCompletion ==
    [][(TickStep /\ state.print_status = "RUNNING" /\ state.progress >= 90)
        => IF state.progress = 90
           THEN /\ state'.print_status = "RUNNING"
                /\ state'.progress = 100
                /\ print_history' = print_history
           ELSE /\ state'.print_status = "IDLE"
                /\ state'.progress = 100
                /\ state'.remaining_time = 0
                /\ Len(print_history') = Min(Len(print_history) + 1, 50)
                /\ print_history'[1].result = "success"
                /\ SubSeq(print_history', 2, Len(print_history'))
                     = SubSeq(print_history, 1, Len(print_history') - 1)]_vars

HistoryMatching(ph, f) == {i \in 1..Len(ph) : f = "all" \/ ph[i].result = f}

Occurrences(seq, r) == Cardinality({i \in 1..Len(seq) : seq[i] = r})

ExpectedPage(ph, a, n, f, reply) ==
    LET M == HistoryMatching(ph, f)
        total == Cardinality(M)
        recs == reply.records
    IN  /\ reply.total = total
        /\ Len(recs) = IF a >= total THEN 0 ELSE Min(n, total - a)
        /\ \A j \in 1..Len(recs) :
              /\ \E i \in M : ph[i] = recs[j]
              /\ Occurrences(recs, recs[j])
                    <= Cardinality({i \in M : ph[i] = recs[j]})
              /\ Cardinality({i \in M : ph[i].start_time > recs[j].start_time}) < a + j
              /\ a + j <= Cardinality({i \in M : ph[i].start_time >= recs[j].start_time})

\* C10: for offset >= 0, count >= 0 and a filter among all, success and
\* failed, the reply's total is the number of matching records and its
\* records are places offset+1 .. offset+count of the matching records in
\* descending start-time order; on the seeded ledger filter=failed gives
\* the one failed record and (all, 0, 2) the two latest with total 3.
C10_HistoryPage ==
    [][\A s \in Sessions :
        (s \in authenticated_clients /\ CommandStep(s, {"get_history"}))
        => LET a == Get(TheCommand, "start", 0)
               n == Get(TheCommand, "count", 10)
               f == Get(TheCommand, "filter", "all")
           IN  (a >= 0 /\ n >= 0)
               => /\ Len(sent') = 1
                  /\ sent'[1].to = s
                  /\ ExpectedPage(print_history, a, n, f, sent'[1].msg.body)
                  /\ (print_history = SeedHistory /\ f = "failed" /\ a = 0 /\ n >= 1)
                        => sent'[1].msg.body.records = <<SeedHistory[3]>>
                  /\ (print_history = SeedHistory /\ f = "all" /\ a = 0 /\ n = 2)
                        => /\ sent'[1].msg.body.records = <<SeedHistory[1], SeedHistory[2]>>
                           /\ sent'[1].msg.body.total = 3]_vars

C10_Witness ==
    /\ last.pkt.type = "PUBLISH"
    /\ last.pkt.message[1] = [command |-> "get_history", start |-> 1, count |-> 2,
                              filter |-> "all"]
    /\ Len(print_history) = 3
    /\ print_history[1].start_time < print_history[3].start_time
    /\ Len(sent) = 1
    /\ sent[1].msg.body.total = 3
    /\ sent[1].msg.body.records = <<print_history[2], print_history[1]>>
\* the command names the dispatcher has a branch for
KnownNames ==
    {"push_all", "get_history", "get_version", "start_print", "project_file",
     "pause", "resume", "stop", "gcode_line", "change_filament"}

\* the PUBLISH just read carries one command that only asks for a report, or
\* one the dispatcher has no branch for
QueryStep(s) ==
    /\ ReadStep(s, {"PUBLISH"})
    /\ last'.pkt.json
    /\ Len(last'.pkt.message) = 1
    /\ LET command == Get(last'.pkt.message[1], "command", "")
       IN  \/ command \in {"push_all", "get_history", "get_version"}
           \/ command \notin KnownNames

\* C11: a push-all, get-history or get-version command, or a command whose
\* name is none of the known ones, leaves PrinterState, the trays, the
\* selected tray, the ledger (content and order) and the authenticated set
\* as they were.
C11_QueriesChangeNothing ==
    [][\A s \in Sessions :
        QueryStep(s)
        => /\ state' = state
           /\ tray_now' = tray_now
           /\ current_file' = current_file
           /\ print_history' = print_history
           /\ authenticated_clients' = authenticated_clients]_vars

C11_Witness ==
    /\ last.pkt.type = "PUBLISH"
    /\ Get(last.pkt.message[1], "command", "") = "get_history"
    /\ Get(last.pkt.message[1], "filter", "all") = "failed"
    /\ Len(sent) = 1
    /\ sent[1].msg.body.records = <<SeedHistory[3]>>
    /\ print_history = SeedHistory
    /\ state.print_status = "RUNNING"
    /\ tray_now = 2
\* C12: a change-filament command whose target index is 4 or more is
\* answered with result failed and leaves the selected tray as it was; one
\* whose target index is in 0..3 makes it the selected tray and is answered
\* with result success.
C12_ChangeFilament ==
    [][\A s \in Sessions :
        (s \in authenticated_clients /\ CommandStep(s, {"change_filament"})
            /\ "target_ams" \in DOMAIN TheCommand)
        => /\ TheCommand.target_ams >= 4
              => /\ Replied(s, "change_filament", "failed")
                 /\ ~Replied(s, "change_filament", "success")
                 /\ tray_now' = tray_now
           /\ TheCommand.target_ams \in 0..3
              => /\ Replied(s, "change_filament", "success")
                 /\ ~Replied(s, "change_filament", "failed")
                 /\ tray_now' = TheCommand.target_ams]_vars

C12_Witness ==
    /\ last.pkt.type = "PUBLISH"
    /\ Get(last.pkt.message[1], "command", "") = "change_filament"
    /\ Get(last.pkt.message[1], "target_ams", 0) = 4
    /\ Len(sent) = 1
    /\ sent[1].msg.body.result = "failed"
    /\ tray_now = 3
\* C13: whatever start, stop and change-filament commands have been
\* processed, with whatever integer tray parameters, the selected tray is
\* the sentinel 255 or the index of one of the four trays.
C13_TrayNowValid == tray_now \in {TRAY_NONE} \cup 0..3
\* the step just taken is a worker processing the named command
CommandBy(names) == \E s \in Sessions : authenticated[s] /\ CommandStep(s, names)

\* C14 as stated: progress does not decrease across a step that has status
\* RUNNING before and after unless the step is a start command, and no
\* step other than a start command takes progress back to 0.
C14_OnlyStartResets ==
    [][/\ (state.print_status = "RUNNING" /\ state'.print_status = "RUNNING"
            /\ state'.progress < state.progress)
          => CommandBy(StartNames)
       /\ (state.progress # 0 /\ state'.progress = 0)
          => CommandBy(StartNames)]_vars

\* C14: progress does not decrease across a step that has status RUNNING
\* before and after unless the step is a start command; the only steps that
\* lower progress are a start command and a stop command, and both take it
\* to 0.
C14_StartOrStopResets ==
    [][/\ (state.print_status = "RUNNING" /\ state'.print_status = "RUNNING"
            /\ state'.progress < state.progress)
          => CommandBy(StartNames)
       /\ (state'.progress < state.progress)
          => /\ CommandBy(StartNames \cup {"stop"})
             /\ state'.progress = 0]_vars

C14_Witness ==
    /\ last.pkt.type = "PUBLISH"
    /\ Get(last.pkt.message[1], "command", "") = "stop"
    /\ state.print_status = "IDLE"
    /\ state.progress = 0
    /\ state.layer_num = 30
\* C15: however the statements of start and stop commands of several
\* authenticated sessions and of the background loop interleave, the ledger
\* has at most 50 records, holds the inserted records newest first ahead of
\* the seeded ones with none missing (up to the cap), status is IDLE,
\* RUNNING or PAUSED and progress is in 0..100.
C15_ConcurrentInvariants ==
    /\ Len(print_history) <= 50
    /\ print_history = SubSeq(thr.log \o SeedHistory, 1,
                              Min(Len(thr.log) + Len(SeedHistory), 50))
    /\ state.print_status \in {"IDLE", "RUNNING", "PAUSED"}
    /\ state.progress \in 0..100

C15_Witness ==
    /\ thr.loc[1].at = "921"
    /\ thr.loc[2].at = "969"
    /\ thr.loc[0].at = "1189w"
    /\ thr.loc[0].tmp = 90
\* what a run of the command and of the iteration leaves behind
Shared(m) == <<m.state, m.tray_now, m.current_file, m.print_history>>

\* the results of the two serial orders of command c and one iteration on m
Serial(m, c) ==
    {Shared(Progress(Dispatch(m, c, t1), t2)) : t1, t2 \in Clock}
    \cup {Shared(Dispatch(Progress(m, t1), c, t2)) : t1, t2 \in Clock}

\* the worker has made some of its command's writes and not yet all
PartialLines ==
    {"919", "920", "921", "922", "923", "928", "929", "930",
     "968", "969", "970", "971"}

\* the lines at which the background loop reads a shared value
ReadingLines == {"1187", "1188", "1189r", "1190r", "1191r", "1194", "1195", "1200"}

\* the command and the iteration have both run to their end, and the
\* shared objects are what one of the two serial orders gives
BothDone == thr.snap # <<>> /\ thr.loc[1].at = "idle" /\ thr.loc[0].at = "idle"

SerialResult ==
    Shared([state |-> state, tray_now |-> tray_now,
            current_file |-> current_file, print_history |-> print_history])
      \in Serial(thr.snap[1].m, thr.snap[1].cmd)

\* C16: when a start, stop, pause or resume command and one iteration of
\* the background loop have both run to their end, PrinterState, the
\* selected tray, the file and the ledger are what one of the two serial
\* orders gives; and the background loop never reads a shared value while
\* the worker is between the first and the last write of its command.
C16_CommandAtomic ==
    /\ [](BothDone => SerialResult)
    /\ [][(thr'.loc[0] # thr.loc[0] /\ thr.loc[0].at \in ReadingLines)
           => thr.loc[1].at \notin PartialLines]_vars
\* C17: every reply sent for a command, of whatever kind, goes to the
\* session that sent the command and carries the command's sequence_id, or
\* "0" when the command has none.
C17_ReplyEchoesSequenceId ==
    [][\A s \in Sessions :
        (authenticated[s] /\ CommandStep(s, KnownNames \cup {"", "calibrate"}))
        => \A i \in 1..Len(sent') :
              sent'[i].msg.type = "PUBLISH"
              => /\ sent'[i].to = s
                 /\ sent'[i].msg.body.sequence_id
                      = IF "sequence_id" \in DOMAIN TheCommand
                        THEN TheCommand.sequence_id ELSE "0"]_vars

C17_Witness ==
    /\ last.pkt.type = "PUBLISH"
    /\ Get(last.pkt.message[1], "command", "") = "get_version"
    /\ Get(last.pkt.message[1], "sequence_id", "") = "42"
    /\ Len(sent) = 1
    /\ sent[1].msg.body.command = "get_version"
    /\ sent[1].msg.body.sequence_id = "42"
\* C18: a push-all command on an authenticated session is answered on that
\* session with one snapshot of the current status, progress, remaining
\* time, target temperatures, layer counts and selected tray, carrying the
\* command's sequence_id.
C18_PushAllAnswered ==
    [][\A s \in Sessions :
        (s \in authenticated_clients /\ CommandStep(s, {"push_all"}))
        => /\ Len(sent') = 1
           /\ sent'[1].to = s
           /\ sent'[1].msg.type = "PUBLISH"
           /\ sent'[1].msg.body.command = "push_status"
           /\ sent'[1].msg.body.gcode_state = state.print_status
           /\ sent'[1].msg.body.mc_percent = state.progress
           /\ sent'[1].msg.body.mc_remaining_time = state.remaining_time
           /\ sent'[1].msg.body.bed_target_temper = state.bed_target_temp
           /\ sent'[1].msg.body.nozzle_target_temper = state.nozzle_target_temp
           /\ sent'[1].msg.body.layer_num = state.layer_num
           /\ sent'[1].msg.body.total_layer_num = state.total_layers
           /\ sent'[1].msg.body.tray_now = tray_now
           /\ sent'[1].msg.body.sequence_id = Get(TheCommand, "sequence_id", "0")]_vars

\* a command object that lacks one of the fields its branch asks for
MissingFields(c) ==
    \/ "command" \notin DOMAIN c
    \/ "sequence_id" \notin DOMAIN c
    \/ c.command \in StartNames /\ "ams_tray" \notin DOMAIN c
    \/ c.command = "change_filament" /\ "target_ams" \notin DOMAIN c
    \/ c.command = "gcode_line" /\ "gcode" \notin DOMAIN c
    \/ c.command = "get_history" /\ {"start", "count", "filter"} \ DOMAIN c # {}

\* the defaults of the .get calls of _handle_command and _send_history
Defaults ==
    [command |-> "", sequence_id |-> "0", ams_tray |-> 0, target_ams |-> 0,
     gcode |-> Str(<<>>), gcode_file |-> "test.gcode",
     start |-> 0, count |-> 10, filter |-> "all"]

Filled(c) ==
    [k \in DOMAIN c \cup DOMAIN Defaults |-> IF k \in DOMAIN c THEN c[k] ELSE Defaults[k]]

\* C19: a command with missing fields leaves the worker reading on its open
\* connection, is answered with exactly one reply, and has the effect and
\* the reply of the same command with the defaults written out.
C19_MissingFieldsDefaulted ==
    [][\A s \in Sessions :
        (authenticated[s] /\ ReadStep(s, {"PUBLISH"}) /\ last'.pkt.json
            /\ Len(last'.pkt.message) = 1 /\ MissingFields(TheCommand))
        => LET m == Dispatch(Machine(state, tray_now, current_file, print_history),
                             Filled(TheCommand), 0)
           IN  /\ conn'[s] = "open"
               /\ s \in clients'
               /\ pc'[s] = "read"
               /\ Len(sent') = 1
               /\ sent'[1].to = s
               /\ sent'[1].msg.type = "PUBLISH"
               /\ sent'[1].msg.body.sequence_id = Get(TheCommand, "sequence_id", "0")
               /\ sent' = To(s, m.out)
               /\ <<state', tray_now', current_file', print_history'>> = Shared(m)]_vars
\* C20: an iteration of the background loop that reaches a due broadcast
\* writes the snapshot to every session in the authenticated set whose send
\* does not fail and to no other session, whether or not a session has
\* subscribed and whether or not a send to another session failed in this
\* or an earlier broadcast; an iteration that is not due writes to none.
C20_BroadcastRecipients ==
    [][(TickStep /\ sim' = "running")
        => bcast' = IF last'.pkt.due
                    THEN {s \in Sessions : s \in authenticated_clients
                                           /\ conn[s] # "broken"}
                    ELSE {}]_vars

C20_Witness ==
    /\ last.pkt.type = "TICK"
    /\ last.pkt.due
    /\ authenticated_clients = {1, 2}
    /\ conn[1] = "broken"
    /\ conn[2] = "open"
    /\ bcast = {2}
\* the worker of session s has left _handle_client
Exited(s) == pc[s] = "done"

\* C21: once a worker has exited, its socket is closed and is neither in
\* the tracked-clients list nor in the authenticated set, in every later
\* state; and the step in which it exits leaves the other workers and the
\* background loop where they were, still running.
C21_ExitedIsGone ==
    /\ [](\A s \in Sessions :
            Exited(s) => /\ conn[s] = "closed"
                         /\ s \notin clients
                         /\ s \notin authenticated_clients)
    /\ [][\A s \in Sessions :
            (~Exited(s) /\ Exited(s)')
            => /\ \A o \in Sessions \ {s} : pc'[o] = pc[o] /\ conn'[o] = conn[o]
               /\ sim' = sim
               /\ running' = running]_vars
\* what was read ended the stream, or carried fewer bytes than declared
CutShort(pkt) ==
    \/ pkt.type = "EOF"
    \/ /\ pkt.type = "INCOMPLETE"
       /\ pkt.of.received < pkt.of.remaining_length
    \/ /\ "received" \in DOMAIN pkt
       /\ pkt.received < pkt.remaining_length

\* C22: when the stream ends, or delivers fewer bytes than the declared
\* remaining length, the partial packet is not dispatched (no state change,
\* no reply), the worker leaves its loop and the connection is closed; a
\* worker that has left its loop never reads another packet.
C22_ShortReadIsFatal ==
    /\ [][\A s \in Sessions :
            (ReadStep(s, {"EOF", "INCOMPLETE", "PUBLISH", "SUBSCRIBE", "PINGREQ",
                          "DISCONNECT"})
               /\ CutShort(last'.pkt))
            => /\ printer' = printer
               /\ sent' = <<>>
               /\ bcast' = {}
               /\ pc'[s] = "done"
               /\ conn'[s] = "closed"]_vars
    /\ [][\A s \in Sessions :
            pc[s] = "done"
            => /\ pc'[s] = "done"
               /\ conn'[s] = "closed"
               /\ ~(npackets' = npackets + 1 /\ last'.by = s)]_vars

C22_Witness ==
    /\ last.pkt.type = "INCOMPLETE"
    /\ last.pkt.of.type = "PUBLISH"
    /\ last.pkt.of.message[1].command = "start_print"
    /\ last.pkt.of.received = last.pkt.of.remaining_length - 1
    /\ authenticated[last.by]
    /\ pc[last.by] = "done"
    /\ conn[last.by] = "closed"
    /\ state.print_status = "IDLE"
    /\ sent = <<>>
Pubacks(msgs) == {i \in 1..Len(msgs) : msgs[i].msg.type = "PUBACK"}

\* C23: a QoS 1 PUBLISH on an authenticated session is answered with the
\* PUBACK carrying its packet id before its command changes any state or
\* sends any reply; a QoS 0 PUBLISH gets no PUBACK, neither when its header
\* is read nor when its command runs.
C23_AckBeforeCommand ==
    [][\A s \in Sessions :
        /\ (ReadStep(s, {"PUBLISH"}) /\ authenticated[s] /\ last'.pkt.qos = 1)
           => /\ sent' = <<[to |-> s,
                            msg |-> [type |-> "PUBACK",
                                     packet_id |-> last'.pkt.packet_id]]>>
              /\ printer' = printer
              /\ pc'[s] = "publish_body"
        /\ (ReadStep(s, {"PUBLISH"}) /\ authenticated[s] /\ last'.pkt.qos = 0)
           => /\ sent' = <<>>
              /\ printer' = printer
        /\ (pc[s] = "publish_body" /\ pc'[s] # pc[s])
           => Pubacks(sent') = {}
        /\ (last'.by = s /\ last'.pkt.type # "TICK"
              /\ (printer' # printer
                    \/ \E i \in 1..Len(sent') : sent'[i].msg.type = "PUBLISH"))
           => pc[s] = "publish_body"]_vars

C23_Witness ==
    /\ last.pkt.type = "PUBLISH_BODY"
    /\ last.pkt.of.qos = 1
    /\ last.pkt.of.packet_id = 10
    /\ last.pkt.of.json
    /\ last.pkt.of.message[1].command = "start_print"
    /\ state.print_status = "RUNNING"
    /\ Len(sent) = 1
    /\ sent[1].msg.type = "PUBLISH"
    /\ sent[1].msg.body.result = "success"
C25_RoundTrip ==
    last.pkt.type = "DECODE"
    => /\ "error" \notin DOMAIN last.pkt.decoded
       /\ last.pkt.decoded.packet_type = 3
       /\ last.pkt.decoded.remaining_length = last.pkt.follows
       /\ "error" \notin DOMAIN last.pkt.decoded.publish
       /\ last.pkt.decoded.publish.topic = Run("topic", last.pkt.topic_len)
       /\ last.pkt.decoded.publish.message_payload = Run("body", last.pkt.body_len)
\* C26: every reply to a command that arrived under a domain key is an
\* object under that same key, whatever the key is, and carries a result
\* field and the sequence_id of the command.
C26_ReplyMirrorsDomain ==
    [][\A s \in Sessions :
        (ReadStep(s, {"PUBLISH"}) /\ last'.pkt.json /\ Len(last'.pkt.message) = 1)
        => \A i \in 1..Len(sent') :
              sent'[i].msg.type = "PUBLISH"
              => /\ sent'[i].msg.body.key = last'.pkt.keys[1]
                 /\ "result" \in DOMAIN sent'[i].msg.body
                 /\ sent'[i].msg.body.sequence_id
                      = Get(last'.pkt.message[1], "sequence_id", "0")]_vars
\* C27: every PUBLISH the simulator sends, a command reply, the snapshot
\* after an accepted CONNECT or a broadcast, is on the report topic of the
\* serial number the simulator was constructed with.
C27_TopicOfConfiguredSerial ==
    /\ \A i \in 1..Len(sent) :
          sent[i].msg.type = "PUBLISH" => sent[i].msg.topic = serial_number
    /\ bcast # {}
          => FullStatus(state, tray_now, current_file, "0").topic = serial_number
\* C28: pause sets status PAUSED and resume sets status RUNNING whatever
\* the status was, each answered with exactly one reply of result success;
\* every other field of the state (progress, layer counts, remaining time,
\* target temperatures), the selected tray, the file name and the ledger
\* are left as they were.
C28_PauseResumeFrame ==
    [][\A s \in Sessions :
        /\ CommandStep(s, {"pause"})
           => /\ state' = [state EXCEPT !.print_status = "PAUSED"]
              /\ tray_now' = tray_now
              /\ current_file' = current_file
              /\ print_history' = print_history
              /\ Len(sent') = 1
              /\ Replied(s, "pause", "success")
        /\ CommandStep(s, {"resume"})
           => /\ state' = [state EXCEPT !.print_status = "RUNNING"]
              /\ tray_now' = tray_now
              /\ current_file' = current_file
              /\ print_history' = print_history
              /\ Len(sent') = 1
              /\ Replied(s, "resume", "success")]_vars

\* a resume with no job loaded (status was IDLE, or PAUSED from IDLE)
\* after a job has run to the end
C28_Witness ==
    /\ last.pkt.type = "PUBLISH"
    /\ Get(last.pkt.message[1], "command", "") = "resume"
    /\ state.print_status = "RUNNING"
    /\ state.progress = 100
    /\ Len(sent) = 1
    /\ sent[1].msg.body.result = "success"
\* C29: an iteration of the loop that finds status RUNNING and progress
\* p < 100 sets progress to p + 10, at most 100, remaining_time to
\* 36 * (100 - progress) and layer_num to the new progress and leaves the
\* status RUNNING; one that finds RUNNING and progress 100 sets status
\* IDLE, keeps progress 100 and sets remaining_time to 0.
C29_TickArithmetic ==
    [][(TickStep /\ state.print_status = "RUNNING")
        => IF state.progress < 100
           THEN /\ state'.progress = state.progress + 10
                /\ state'.progress <= 100
                /\ state'.remaining_time = 36 * (100 - state'.progress)
                /\ state'.layer_num = state'.progress
                /\ state'.print_status = "RUNNING"
           ELSE /\ state.progress = 100
                /\ state'.print_status = "IDLE"
                /\ state'.progress = 100
                /\ state'.remaining_time = 0]_vars

\* the loop has just finished a job that it had taken from 0 to 100
C29_Witness ==
    /\ last.pkt.type = "TICK"
    /\ state.print_status = "IDLE"
    /\ state.progress = 100
    /\ state.layer_num = 100
    /\ state.remaining_time = 0
    /\ current_file # ""

\* C30: an iteration of the loop that finds status PAUSED or IDLE leaves
\* status, progress, remaining_time, layer_num, the trays and the ledger as
\* they were; it may send a broadcast.
C30_IdleTickFrame ==
    [][(TickStep /\ state.print_status \in {"PAUSED", "IDLE"})
        => /\ state'.print_status = state.print_status
           /\ state'.progress = state.progress
           /\ state'.remaining_time = state.remaining_time
           /\ state'.layer_num = state.layer_num
           /\ state'.bed_target_temp = state.bed_target_temp
           /\ state'.nozzle_target_temp = state.nozzle_target_temp
           /\ tray_now' = tray_now
           /\ print_history' = print_history
           /\ sim' = sim
           /\ sent' = <<>>
           /\ bcast' \in {{}, authenticated_clients}]_vars

\* a broadcast sent by an iteration that found a job paused half way
C30_Witness ==
    /\ last.pkt.type = "TICK"
    /\ state.print_status = "PAUSED"
    /\ state.progress = 50
    /\ state.remaining_time = 1800
    /\ bcast = authenticated_clients
    /\ bcast # {}
\* what a gcode value asks for: the field one of the four instructions
\* sets and the value it sets it to, or nothing for every other value
Instruction(g) ==
    CASE g = Str(<<"M", "1", "0", "4", " ", "S", "2", "1", "0">>) ->
           [field |-> "nozzle_target_temp", value |-> 210]
      [] g = Str(<<"m", "1", "0", "4", " ", "s", "2", "1", "5">>) ->
           [field |-> "nozzle_target_temp", value |-> 215]
      [] g = Str(<<" ", "M", "1", "4", "0", " ", "S", "6", "0", " ">>) ->
           [field |-> "bed_target_temp", value |-> 60]
      [] g = Str(<<"M", "1", "4", "0", " ", "S", "0">>) ->
           [field |-> "bed_target_temp", value |-> 0]
      [] g = Str(<<"M", "1", "0", "6", " ", "S", "1", "2", "8">>) ->
           [field |-> "fan_speed", value |-> 50]
      [] g = Str(<<"M", "1", "0", "6", " ", "S", "2", "5", "5">>) ->
           [field |-> "fan_speed", value |-> 100]
      [] g = Str(<<"M", "1", "0", "6", " ", "S", "2", "5", "4">>) ->
           [field |-> "fan_speed", value |-> 99]
      [] g = Str(<<"M", "1", "0", "7">>) ->
           [field |-> "fan_speed", value |-> 0]
      [] OTHER -> [field |-> "none", value |-> 0]

\* C31: a gcode_line command is always answered with one reply of result
\* success; M104 S<t> sets the nozzle target to t, M140 S<t> the bed target
\* to t, M106 S<n> the fan percent to the integer part of n*100/255, M107
\* the fan percent to 0, and nothing else changes; every other or
\* unparsable line changes nothing at all.
C31_GcodeEffect ==
    [][\A s \in Sessions :
        CommandStep(s, {"gcode_line"})
        => LET what == Instruction(Get(TheCommand, "gcode", Str(<<>>)))
           IN  /\ Len(sent') = 1
               /\ Replied(s, "gcode_line", "success")
               /\ state' = IF what.field = "none" THEN state
                           ELSE [state EXCEPT ![what.field] = what.value]
               /\ tray_now' = tray_now
               /\ current_file' = current_file
               /\ print_history' = print_history]_vars
\* C32: once stop() has returned, whatever workers were leaving while it
\* ran, every socket still in the tracked-clients list is closed and the
\* listening sockets are closed.
C32_StopClosesEverything ==
    thr.stop.at = "done"
    => /\ \A s \in clients : conn[s] = "closed"
       /\ ~thr.listening
\* C33: while the server is running the background loop is alive, whatever
\* packets and commands the sessions have sent: no command leaves a state
\* in which an iteration of the loop raises.
C33_LoopSurvives ==
    running => sim = "running"
\* no command and no iteration of the background loop is under way
Quiescent == \A th \in Threads : thr.loc[th].at \in {"idle", "dead"}

\* C34: the status IDLE goes with progress 0 or progress 100, under every
\* interleaving of the workers' statements with those of the background
\* loop; stated of the states in which every thread has finished what it
\* was doing, where a half-made command cannot be the excuse.
C34_IdleProgress ==
    (Quiescent /\ state.print_status = "IDLE") => state.progress \in {0, 100}
\* C35: between two consecutive start commands the background loop takes
\* its finishing branch (record the completion, RUNNING to IDLE) at most
\* once, whatever pause and resume commands come in between.
C35_CompletesOnce ==
    thr.completions <= 1
\* C36: a connected session whose worker is back at its read is in the
\* authenticated set exactly when the latest CONNACK it was sent is an
\* acceptance: a refusal takes a session authenticated earlier out of the
\* set.
C36_SetFollowsLastConnect ==
    \A s \in Sessions :
        (conn[s] = "open" /\ pc[s] = "read")
        => (s \in authenticated_clients
            <=> (connacks[s] # <<>> /\ connacks[s][Len(connacks[s])] = 0))
\* C37: a JSON object in a PUBLISH on an authenticated session is answered
\* with exactly one reply per top-level key, whatever the command is.
C37_OneReplyPerKey ==
    [][\A s \in Sessions :
        (authenticated[s] /\ ReadStep(s, {"PUBLISH"}) /\ last'.pkt.json)
        => Cardinality({i \in 1..Len(sent') :
                          sent'[i].to = s /\ sent'[i].msg.type = "PUBLISH"})
           = Len(last'.pkt.message)]_vars
\* the step is a one-command message read on authenticated session s whose
\* handling raised: the dispatcher sent no reply for it
Unanswered(s) ==
    /\ authenticated[s]
    /\ ReadStep(s, {"PUBLISH"})
    /\ last'.pkt.json
    /\ Len(last'.pkt.message) = 1
    /\ \A i \in 1..Len(sent') : sent'[i].msg.type # "PUBLISH"

\* C38: a command whose handling raises inside the dispatcher leaves
\* PrinterState, the selected tray, the current file name and the ledger as
\* they were: a command is applied and answered, or not applied at all.
C38_AllOrNothing ==
    [][\A s \in Sessions : Unanswered(s) => printer' = printer]_vars
\* a reader that takes the first byte and decodes the remaining length
\* finds exactly that many bytes after the field
WellFramed(bytes) ==
    LET field == DecodeLength(<<Tail(bytes)>>, 0, 1)
        follow == IF field.stream = <<>> THEN 0 ELSE Length(Head(field.stream))
    IN  field.ok /\ field.remaining_length = follow

\* C39: every CONNACK, PUBACK, SUBACK and PINGRESP the server sends
\* declares as its remaining length the number of bytes that follow the
\* field: 2, 2, 2 + n for n topics, and 0.
C39_Framing ==
    \A i \in 1..Len(sent) :
        sent[i].msg.type # "PUBLISH" => WellFramed(Wire(sent[i].msg))

====
